---- MODULE Spec2Model ----
(***************************************************************************)
(* Model of the docs ingestion pipeline, the snapshot acquisition manager  *)
(* and the plugin of opencode-palantir (src/src/docs/snapshot.ts,          *)
(* src/src/docs/fetch.ts, src/src/docs/db.ts and src/src/index.ts).        *)
(*                                                                         *)
(* The state machines share the module, each with a specification of its   *)
(* own; the variables of the others stay at their initial value:           *)
(*   Spec        withConcurrencyLimit  (the bounded scheduler)             *)
(*   SnapSpec    ensureDocsParquet     (coalesced snapshot acquisition)    *)
(*   RetrySpec   fetchWithRetry        (retry with backoff)                *)
(*   DocsSpec    fetchAllDocs          (ingestion, driving the scheduler)  *)
(*   FrameSpec   decompressPagefind    (the frame decoder)                 *)
(*   UrlsSpec    normalizeSnapshotUrls (the download candidates)           *)
(*   StoreSpec   insertPage / getPage  (the SQLite store)                  *)
(*   PluginSpec  getDb and the tools   (the cached store of the plugin)    *)
(*   ListSpec    list_all_docs         (paginated listing)                 *)
(*   ConfigSpec  the config hook       (commands and agents)               *)
(*   McpSpec     listPalantirMcpTools  (the MCP JSON-RPC client)           *)
(* LiveSpec is Spec with the fairness the event loop gives the scheduler.  *)
(***************************************************************************)
EXTENDS Integers, Sequences, FiniteSets, TLC

(***************************************************************************)
(* Bounds of the model.                                                    *)
(***************************************************************************)
MaxTasks == 3
MaxLimit == 2
MaxCalls == 2
MaxAttempts == 2
MaxUrls == 2

VARIABLES
    \* ---- withConcurrencyLimit ----
    variant,      \* "snapshot" (counts `completed`) or "fetch" (tests results.length)
    tasks,        \* number of tasks of the input list (tasks.length)
    limit,        \* the limit argument
    called,       \* the executor has run its first next()
    running,      \* let running
    index,        \* let index (0-based, the next task to start)
    completed,    \* let completed (snapshot.ts only)
    results,      \* the results array, a hole being Empty
    taskState,    \* per task: where its promise chain stands
    outcome,      \* per task: what its promise settled with
    startCount,   \* per task: how often tasks[i]() was invoked
    resolved,     \* resolve(results) has been called
    maxConcurrent, \* the largest number of tasks seen in flight (the test's observer)
    \* ---- ensureDocsParquet ----
    inFlightByPath, \* const inFlightByPath: resolved path -> attempt (NoAttempt: no entry)
    attempts,       \* the executions of ensureDocsParquetInternal, in order of creation
    calls,          \* per call of ensureDocsParquet, in order of arrival: the attempt
                    \* whose promise it returned, and the attempts for its path that
                    \* were pending when it arrived
    files,          \* the file system: file name -> content
    clock,          \* the latest value Date.now() returned to tempPathFor, 0 for none
    \* ---- fetchWithRetry ----
    attempt,        \* let attempt (the loop counter)
    retryPc,        \* "delay", "fetch", "resolved" or "rejected"
    fetchCalls,     \* how often fetch(url) has been called
    responses,      \* what each settled fetch(url) answered, in order
    delays,         \* the delay awaited before each retry, in ms
    lastError,      \* let lastError
    thrown,         \* the error fetchWithRetry rejected with
    \* ---- fetchAllDocs ----
    options,        \* options.concurrency and options.progressEvery (0: left out)
    docPc,          \* the await fetchAllDocs is suspended at, "returned" or "rejected"
    docError,       \* what fetchAllDocs rejected with
    entryLangs,     \* entry.languages, in key order
    metaHash,       \* langHash, the hash the page index was requested for
    pageHashes,     \* const pageHashes
    progressEvery,  \* const progressEvery
    chain,          \* per page: where fetchFragment(hash).catch(...).finally(...) stands
    fragOutcome,    \* per page: what fetchFragment(hash) settled with
    processedPages, \* let processedPages
    events,         \* the events handed to onProgress, in order of delivery
    fetchedRecords, \* const fetchedRecords
    failedUrls,     \* const failedUrls
    writerCalls,    \* the record lists handed to writeParquet, in order
    docResult,      \* the value fetchAllDocs resolved with
    eventsAtSettle  \* how many events had been delivered when the promise settled

schedVars == <<variant, tasks, limit, called, running, index, completed, results,
               taskState, outcome, startCount, resolved, maxConcurrent>>

snapVars == <<inFlightByPath, attempts, calls, files, clock>>

retryVars == <<attempt, retryPc, fetchCalls, responses, delays, lastError, thrown>>

docsVars == <<options, docPc, docError, entryLangs, metaHash, pageHashes, progressEvery,
              chain, fragOutcome, processedPages, events, fetchedRecords, failedUrls,
              writerCalls, docResult, eventsAtSettle>>

coreVars == <<schedVars, snapVars, retryVars, docsVars>>

VARIABLES
    \* ---- decompressPagefind ----
    pfData,         \* the bytes handed to decompressPagefind
    pfOut,          \* what the call returned or threw
    \* ---- normalizeSnapshotUrls ----
    customUrls,     \* the customUrls argument (options.snapshotUrls)
    envSingleRaw,   \* process.env.OPENCODE_PALANTIR_DOCS_SNAPSHOT_URL
    envManyRaw,     \* process.env.OPENCODE_PALANTIR_DOCS_SNAPSHOT_URLS
    urlsOut,        \* what normalizeSnapshotUrls returned
    \* ---- the SQLite store (db.ts) ----
    pagesTable,     \* the rows of table pages, in rowid order
    inserted,       \* the records handed to insertPage, in order
    \* ---- the plugin instance (index.ts) ----
    dbInstance,     \* let dbInstance: the cached store, NoStore for null
    dbFile,         \* Bun.file(dbPath).exists()
    toolCalls,      \* per tool call, in order of arrival: where execute stands
    createCalls,    \* how often createDatabase was invoked since the last refresh
    openStores,     \* the stores createDatabase returned and nobody closed
    storesMade,     \* how many stores createDatabase has returned
    refreshPc,      \* where /refresh-docs stands: "idle", "fetching", "written"
    refreshes,      \* how many /refresh-docs commands have run
    fileVersion,    \* how many times fetchAllDocs has changed the rows of the docs file
    openedAt,       \* per store createDatabase returned: the file version at that time
    refreshedTo,    \* the file version the last completed /refresh-docs left
    storeKind,      \* what createDatabase returns: "connection" or "loaded"
    \* ---- list_all_docs (index.ts) ----
    listPages,      \* what getAllPages(db) returns: the pages in store order
    listArgs,       \* the args of the last call
    listFirst,      \* the args of the caller's first call
    listOut,        \* what the last call returned
    walking,        \* the last calls started at offset 0 and followed 'Next'
    walked,         \* the entries those calls returned, in order
    \* ---- the config hook (index.ts) ----
    cfg,            \* the Config object handed to the hook, mutated in place
    cfgGiven,       \* the config as it was before the first run of the hook
    cfgAfterFirst,  \* the config as the first run left it
    hookRuns,       \* how often the hook has run on cfg
    foundryEnv,     \* FOUNDRY_TOKEN and FOUNDRY_URL are both set and not blank
    autoBootstrapStarted, \* let autoBootstrapStarted
    \* ---- listPalantirMcpTools (the MCP JSON-RPC client) ----
    mcpPc,          \* which await listPalantirMcpTools stands at, or how it settled
    nextId,         \* let nextId
    pending,        \* const pending: the ids of the requests awaiting a response
    stdoutQueue,    \* the lines the child has written and stdoutPump has not read
    stdoutOpen,     \* the child's stdout has not ended
    stderrOpen,     \* the child's stderr has not ended
    stdoutPump,     \* "reading", or "ended" once the promise stdoutPump has settled
    stderrPump,     \* "reading", or "ended" once the promise stderrPump has settled
    killed,         \* proc.kill() has been called
    linesWritten,   \* how many lines the child has written
    mcpTrace,       \* what the client did, in order: registrations, writes, settlements
    mcpOut          \* what the try block ended with: the names or the error thrown

frameVars == <<pfData, pfOut>>

urlVars == <<customUrls, envSingleRaw, envManyRaw, urlsOut>>

storeVars == <<pagesTable, inserted>>

pluginVars == <<dbInstance, dbFile, toolCalls, createCalls, openStores, storesMade,
                refreshPc, refreshes, fileVersion, openedAt, refreshedTo, storeKind>>

listVars == <<listPages, listArgs, listFirst, listOut, walking, walked>>

configVars == <<cfg, cfgGiven, cfgAfterFirst, hookRuns, foundryEnv, autoBootstrapStarted>>

mcpVars == <<mcpPc, nextId, pending, stdoutQueue, stdoutOpen, stderrOpen, stdoutPump,
             stderrPump, killed, linesWritten, mcpTrace, mcpOut>>

auxVars == <<frameVars, urlVars, storeVars, pluginVars, listVars, configVars, mcpVars>>

vars == <<coreVars, auxVars>>

(***************************************************************************)
(* withConcurrencyLimit: src/src/docs/snapshot.ts 439-480 and the older    *)
(* src/src/docs/fetch.ts 147-186.                                          *)
(***************************************************************************)
Variants == {"snapshot", "fetch"}

Empty == [status |-> "empty"]

\* What tasks[i]() settles with; the value or reason names the task.
Fulfilled(i) == [status |-> "fulfilled", value |-> i]
Rejected(i) == [status |-> "rejected", reason |-> i]

TaskIds == 1..tasks

Min(a, b) == IF a < b THEN a ELSE b
Max(a, b) == IF a > b THEN a ELSE b

\* new Array(tasks.length) in snapshot.ts, [] in fetch.ts.
NewResults(v, n) == IF v = "snapshot" THEN [k \in 1..n |-> Empty] ELSE <<>>

\* results[taskIndex] = outcome on a JavaScript array: an index past the end
\* lengthens the array and leaves holes. Position k holds JavaScript index k-1.
SetAtPush(arr, k, v) == Append(arr, v)
SetAt(arr, k, v) ==
    IF k <= Len(arr) THEN [arr EXCEPT ![k] = v]
    ELSE [j \in 1..k |-> IF j <= Len(arr) THEN arr[j] ELSE IF j = k THEN v ELSE Empty]

\* The test at the top of next(): completed === tasks.length (snapshot.ts),
\* results.length === tasks.length (fetch.ts).
ShouldResolveByLength(v, done, arr, n) == Len(arr) = n
ShouldResolve(v, done, arr, n) ==
    IF v = "snapshot" THEN done = n ELSE Len(arr) = n

\* How many tasks the while loop of next() starts:
\* while (running < limit && index < tasks.length).
NumToStartOffByOne(run, lim, idx, n) == Max(0, Min(lim + 1 - run, n - idx))
NumToStart(run, lim, idx, n) == Max(0, Min(lim - run, n - idx))

InFlight == Cardinality({i \in TaskIds : taskState[i] = "inflight"})

\* function next(): resolve and return, or start tasks while slots are free.
\* run, done, arr and ts are the values of running, completed, results and the
\* tasks' states when next() is entered.
\* n, lim, idx, sc and mc are tasks.length, limit, index, the start counts and
\* the observed maximum at that moment.
NextFnFrom(n, lim, idx, run, done, arr, ts, sc, mc) ==
    IF ShouldResolve(variant, done, arr, n)
    THEN /\ resolved' = TRUE
         /\ running' = run
         /\ taskState' = ts
         /\ index' = idx
         /\ startCount' = sc
         /\ maxConcurrent' = mc
    ELSE LET k == NumToStart(run, lim, idx, n)
             started == {i \in 1..n : idx < i /\ i <= idx + k}
             ts2 == [i \in 1..n |-> IF i \in started THEN "inflight" ELSE ts[i]]
         IN /\ index' = idx + k
            /\ running' = run + k
            /\ taskState' = ts2
            /\ startCount' = [i \in 1..n |-> IF i \in started THEN sc[i] + 1 ELSE sc[i]]
            /\ maxConcurrent' = Max(mc, Cardinality({i \in 1..n : ts2[i] = "inflight"}))
            /\ UNCHANGED resolved

NextFn(run, done, arr, ts) ==
    NextFnFrom(tasks, limit, index, run, done, arr, ts, startCount, maxConcurrent)

SchedInit ==
    /\ variant \in Variants
    /\ tasks \in 0..MaxTasks
    /\ limit \in 1..MaxLimit
    /\ called = FALSE
    /\ running = 0
    /\ index = 0
    /\ completed = 0
    /\ results = NewResults(variant, tasks)
    /\ taskState = [i \in 1..tasks |-> "unstarted"]
    /\ outcome = [i \in 1..tasks |-> "none"]
    /\ startCount = [i \in 1..tasks |-> 0]
    /\ resolved = FALSE
    /\ maxConcurrent = 0

\* withConcurrencyLimit(tasks, limit): the promise executor calls next() once.
Call ==
    /\ ~called
    /\ called' = TRUE
    /\ NextFn(running, completed, results, taskState)
    /\ UNCHANGED <<variant, tasks, limit, completed, results, outcome>>
    /\ UNCHANGED <<snapVars, retryVars, docsVars, auxVars>>

\* The promise of a started task fulfils (the environment's step).
TaskFulfils(i) ==
    /\ taskState[i] = "inflight"
    /\ taskState' = [taskState EXCEPT ![i] = "settled"]
    /\ outcome' = [outcome EXCEPT ![i] = "fulfilled"]
    /\ UNCHANGED <<variant, tasks, limit, called, running, index, completed, results,
                   startCount, resolved, maxConcurrent>>
    /\ UNCHANGED <<snapVars, retryVars, docsVars, auxVars>>

\* The promise of a started task rejects (the environment's step).
TaskRejects(i) ==
    /\ taskState[i] = "inflight"
    /\ taskState' = [taskState EXCEPT ![i] = "settled"]
    /\ outcome' = [outcome EXCEPT ![i] = "rejected"]
    /\ UNCHANGED <<variant, tasks, limit, called, running, index, completed, results,
                   startCount, resolved, maxConcurrent>>
    /\ UNCHANGED <<snapVars, retryVars, docsVars, auxVars>>

\* .then((value) => { results[taskIndex] = {status: 'fulfilled', value} })
ThenCallback(i) ==
    /\ taskState[i] = "settled"
    /\ outcome[i] = "fulfilled"
    /\ results' = SetAt(results, i, Fulfilled(i))
    /\ taskState' = [taskState EXCEPT ![i] = "recorded"]
    /\ UNCHANGED <<variant, tasks, limit, called, running, index, completed, outcome,
                   startCount, resolved, maxConcurrent>>
    /\ UNCHANGED <<snapVars, retryVars, docsVars, auxVars>>

\* A chain whose rejection path records the reason and frees the slot but never
\* reaches next().
CatchCallbackNoNext(i) ==
    /\ taskState[i] = "settled"
    /\ outcome[i] = "rejected"
    /\ results' = SetAt(results, i, Rejected(i))
    /\ taskState' = [taskState EXCEPT ![i] = "done"]
    /\ running' = running - 1
    /\ completed' = IF variant = "snapshot" THEN completed + 1 ELSE completed
    /\ UNCHANGED <<variant, tasks, limit, called, index, outcome,
                   startCount, resolved, maxConcurrent>>
    /\ UNCHANGED <<snapVars, retryVars, docsVars, auxVars>>

\* .catch((error) => { results[taskIndex] = {status: 'rejected', reason} })
CatchCallback(i) ==
    /\ taskState[i] = "settled"
    /\ outcome[i] = "rejected"
    /\ results' = SetAt(results, i, Rejected(i))
    /\ taskState' = [taskState EXCEPT ![i] = "recorded"]
    /\ UNCHANGED <<variant, tasks, limit, called, running, index, completed, outcome,
                   startCount, resolved, maxConcurrent>>
    /\ UNCHANGED <<snapVars, retryVars, docsVars, auxVars>>

\* A finally handler that frees the slot and counts the task but never calls next().
FinallyCallbackNoNext(i) ==
    /\ taskState[i] = "recorded"
    /\ completed' = IF variant = "snapshot" THEN completed + 1 ELSE completed
    /\ running' = running - 1
    /\ taskState' = [taskState EXCEPT ![i] = "done"]
    /\ UNCHANGED <<variant, tasks, limit, called, index, results, outcome,
                   startCount, resolved, maxConcurrent>>
    /\ UNCHANGED <<snapVars, retryVars, docsVars, auxVars>>

\* .finally(() => { running--; completed++; next() }); fetch.ts has no completed.
FinallyCallback(i) ==
    /\ taskState[i] = "recorded"
    /\ completed' = IF variant = "snapshot" THEN completed + 1 ELSE completed
    /\ NextFn(running - 1, completed', results, [taskState EXCEPT ![i] = "done"])
    /\ UNCHANGED <<variant, tasks, limit, called, results, outcome>>
    /\ UNCHANGED <<snapVars, retryVars, docsVars, auxVars>>

(***************************************************************************)
(* ensureDocsParquet: src/src/docs/snapshot.ts 40-263.                     *)
(***************************************************************************)
(***************************************************************************)
(* normalizeSnapshotUrls: src/src/docs/snapshot.ts 51-66. A string is a    *)
(* sequence of characters; "u", "v" and "d" each stand for the text of a   *)
(* URL without blanks or commas, "d" for the text of the built-in default. *)
(***************************************************************************)
\* undefined, and a value that is set.
Undefined == [set |-> FALSE]
Defined(v) == [set |-> TRUE, value |-> v]

\* DEFAULT_DOCS_SNAPSHOT_URLS
DEFAULT_DOCS_SNAPSHOT_URLS == << <<"d">> >>

EnvChars == {"u", "d", " ", ","}

\* String.prototype.trim
RECURSIVE TrimStart(_)
TrimStart(str) == IF str # <<>> /\ str[1] = " " THEN TrimStart(Tail(str)) ELSE str
RECURSIVE TrimEnd(_)
TrimEnd(str) ==
    IF str # <<>> /\ str[Len(str)] = " " THEN TrimEnd(SubSeq(str, 1, Len(str) - 1)) ELSE str
Trim(str) == TrimEnd(TrimStart(str))

\* str.split(','): the pieces between the commas, empty ones included.
RECURSIVE SplitAcc(_, _, _)
SplitAcc(str, piece, done) ==
    IF str = <<>> THEN Append(done, piece)
    ELSE IF str[1] = "," THEN SplitAcc(Tail(str), <<>>, Append(done, piece))
    ELSE SplitAcc(Tail(str), Append(piece, str[1]), done)
SplitOnComma(str) == SplitAcc(str, <<>>, <<>>)

\* .map((x) => x.trim()).filter((x) => x.length > 0)
RECURSIVE TrimAndDropEmpty(_)
TrimAndDropEmpty(list) ==
    IF list = <<>> THEN <<>>
    ELSE LET x == Trim(list[1])
         IN (IF Len(x) > 0 THEN <<x>> ELSE <<>>) \o TrimAndDropEmpty(Tail(list))

\* Array.from(new Set(list)): a Set keeps the insertion order of first adds.
RECURSIVE UniqueInOrder(_, _)
UniqueInOrder(list, seen) ==
    IF list = <<>> THEN seen
    ELSE UniqueInOrder(Tail(list),
             IF \E k \in 1..Len(seen) : seen[k] = list[1] THEN seen ELSE Append(seen, list[1]))

EnvSingle(raw) ==
    IF raw.set /\ Len(Trim(raw.value)) > 0 THEN <<Trim(raw.value)>> ELSE <<>>

EnvMany(raw) ==
    IF raw.set /\ Len(Trim(raw.value)) > 0
    THEN TrimAndDropEmpty(SplitOnComma(raw.value))
    ELSE <<>>

\* The environment's URLs replace the built-in default.
NormalizeSnapshotUrlsEnvInstead(custom, single, many) ==
    UniqueInOrder(
        IF custom.set THEN custom.value
        ELSE IF EnvMany(many) \o EnvSingle(single) # <<>> THEN EnvMany(many) \o EnvSingle(single)
        ELSE DEFAULT_DOCS_SNAPSHOT_URLS,
        <<>>)

\* customUrls ?? [...envMany, ...envSingle, ...DEFAULT_DOCS_SNAPSHOT_URLS], deduplicated.
NormalizeSnapshotUrls(custom, single, many) ==
    UniqueInOrder(
        IF custom.set THEN custom.value
        ELSE EnvMany(many) \o EnvSingle(single) \o DEFAULT_DOCS_SNAPSHOT_URLS,
        <<>>)

(***************************************************************************)
(* The state of ensureDocsParquet.                                         *)
(***************************************************************************)
MIN_SNAPSHOT_BYTES == 64

NoAttempt == 0

\* The process's working directory and the directories of the model.
Cwd == <<"w">>
PluginDataDir == <<"plugin", "data">>

\* options.dbPath as the caller writes it: the snapshot of the worktree, named
\* relative to Cwd or by its absolute path.
RawPaths ==
    { [rel |-> TRUE,  dir |-> <<"data">>,      base |-> "docs.parquet"],
      [rel |-> FALSE, dir |-> <<"w", "data">>, base |-> "docs.parquet"] }

\* path.resolve(options.dbPath): a file name [dir, base, stamp], stamp 0 for a
\* file that is no temp file.
Resolve(raw) ==
    [dir |-> IF raw.rel THEN Cwd \o raw.dir ELSE raw.dir, base |-> raw.base, stamp |-> 0]

DestPaths == {Resolve(raw) : raw \in RawPaths}

\* bundledSnapshotCandidates with a pluginDirectory: <pluginDirectory>/data/docs.parquet.
BundledPath == [dir |-> PluginDataDir, base |-> "docs.parquet", stamp |-> 0]

\* The values of Date.now() that the model tells apart: one for each write
\* the calls of a run can make (a write per URL and the bundled copy).
Stamps == 1..(MaxCalls * (MaxUrls + 1))

\* tempPathFor(dbPath): `.${base}.tmp.${pid}.${Date.now()}` beside dbPath, t
\* being what Date.now() returned.
TempPathForInPlace(dbPath, t) == dbPath
TempPathFor(dbPath, t) == [dir |-> dbPath.dir, base |-> dbPath.base, stamp |-> t]

\* What a path holds: nothing, a directory, or a regular file with its size,
\* where its bytes came from, and whether the write that produces them has
\* finished.
Absent ==
    [exists |-> FALSE, isFile |-> FALSE, size |-> 0, from |-> <<"none">>, complete |-> FALSE]
FileOf(size, from, complete) ==
    [exists |-> TRUE, isFile |-> TRUE, size |-> size, from |-> from, complete |-> complete]
Directory ==
    [exists |-> TRUE, isFile |-> FALSE, size |-> 4096, from |-> <<"mkdir">>, complete |-> TRUE]

\* The URLs a call may pass as snapshotUrls, and what it may pass: nothing,
\* a list without repetition, or a list that names its first URL twice.
U1 == <<"u">>
U2 == <<"v">>
UrlNames == <<U1, U2, <<"w">>, <<"x">> >>
UrlLists == {SubSeq(UrlNames, 1, n) : n \in 0..MaxUrls}
SnapshotUrlArgs ==
    {Undefined} \cup {Defined(l) : l \in UrlLists} \cup {Defined(<<U1, U1>>)}

\* What fetch(url) may answer: a thrown transport error, a non-OK status, or
\* an OK response whose body has some size.
PayloadSizes == {MIN_SNAPSHOT_BYTES - 1, MIN_SNAPSHOT_BYTES}
Responses ==
    {[kind |-> "throw", size |-> 0], [kind |-> "http", size |-> 0]}
        \cup {[kind |-> "ok", size |-> n] : n \in PayloadSizes}

\* inFlightByPath.get / .set / .delete
InFlightGetMiss(map, dbPath) == NoAttempt
InFlightGet(map, dbPath) == map[dbPath]
InFlightSetNoop(map, dbPath, a) == map
InFlightSet(map, dbPath, a) == [map EXCEPT ![dbPath] = a]
InFlightDelete(map, dbPath) == [map EXCEPT ![dbPath] = NoAttempt]

\* What an attempt settles with: an EnsureDocsParquetResult or an error.
NoUrl == <<>>
NoOutcome ==
    [kind |-> "none", source |-> "", changed |-> FALSE, bytes |-> 0,
     downloadUrl |-> NoUrl, hint |-> FALSE, why |-> ""]
\* downloadUrl NoUrl stands for a result without the property.
Result(dbPath, source, changed, bytes, url) ==
    [kind |-> "result", dbPath |-> dbPath, source |-> source, changed |-> changed,
     bytes |-> bytes, downloadUrl |-> url, hint |-> FALSE, why |-> ""]
\* hint: the message names /refresh-docs-rescrape.
Failure(why, hint) ==
    [kind |-> "error", source |-> "", changed |-> FALSE, bytes |-> 0,
     downloadUrl |-> NoUrl, hint |-> hint, why |-> why]

\* The events of EnsureDocsParquetEvent; the text of a download error is left out.
StartEvent(force) == [type |-> "start", force |-> force]
SkipExisting(bytes) == [type |-> "skip-existing", bytes |-> bytes]
DownloadStart(url) == [type |-> "download-start", url |-> url]
\* The error a download-failed event carries and tryDownloadSnapshot pushes:
\* `HTTP <status>` of a response that is not OK, or formatError of what was
\* thrown by fetch, by response.arrayBuffer(), by assertValidSnapshotSize
\* (its message names the bytes), by fs.writeFile or by fs.rename.
ReasonOf(why, bytes) == [why |-> why, bytes |-> bytes]
NotOk == ReasonOf("http", 0)
FetchThrew == ReasonOf("fetch", 0)
BodyThrew == ReasonOf("body", 0)
TooSmall(bytes) == ReasonOf("small", bytes)
WriteThrew == ReasonOf("write", 0)
RenameThrew == ReasonOf("rename", 0)

DownloadFailed(url, error) == [type |-> "download-failed", url |-> url, error |-> error]
DownloadSuccess(url, bytes) == [type |-> "download-success", url |-> url, bytes |-> bytes]
CopyStart(sourcePath) == [type |-> "copy-start", sourcePath |-> sourcePath]
CopySuccess(sourcePath, bytes) ==
    [type |-> "copy-success", sourcePath |-> sourcePath, bytes |-> bytes]
Done(result) == [type |-> "done", result |-> result]

\* emit(onEvent, event): ev is what the attempt's onEvent has received.
Emit(rec, event) == [rec EXCEPT !.ev = Append(@, event)]

\* assertValidSnapshotSize
ValidSnapshotSize(bytes) == bytes >= MIN_SNAPSHOT_BYTES

\* An attempt right after ensureDocsParquetInternal ran to its first await
\* (emit start; await ensureDirectoryExists). given: options.snapshotUrls;
\* urls: const snapshotUrls, empty until line 216 has run; tmp: what Date.now()
\* gave the temp file being written, 0 for none; opened: fs.writeFile or
\* fs.copyFile, which is under way, has opened the temp file. before: the
\* destination as the attempt found it, kept for as long as the attempt has
\* not resolved.
NewAttempt(dbPath, force, given) ==
    [path |-> dbPath, force |-> force, given |-> given, urls |-> <<>>, pc |-> "mkdir",
     i |-> 0, fetches |-> 0, size |-> 0, errors |-> 0, tmp |-> 0, opened |-> FALSE,
     out |-> NoOutcome, ev |-> <<StartEvent(force)>>, before |-> Absent]

\* The internal promise settles; the finally callback is queued.
\* The locals of the function die with it.
Settle(rec, out) ==
    [rec EXCEPT !.pc = "settled", !.out = out, !.i = 0, !.size = 0, !.errors = 0,
                !.tmp = 0, !.opened = FALSE,
                !.before = IF out.kind = "result" THEN Absent ELSE @]

\* The stored promise has settled: the attempt's options, its onEvent among
\* them, are no longer reachable.
Forget(rec) ==
    [rec EXCEPT !.pc = "done", !.given = Undefined, !.urls = <<>>, !.force = FALSE,
                !.ev = <<>>, !.before = Absent]

\* tryCopyBundledSnapshot is entered: await statIfExists(sourcePath).
ToBundled(rec) == [rec EXCEPT !.pc = "bstat", !.tmp = 0, !.opened = FALSE]

\* const snapshotUrls = normalizeSnapshotUrls(options.snapshotUrls), then
\* tryDownloadSnapshot is entered: download-start is emitted and fetch(urls[0])
\* is called, or the list is empty and the function returns null.
ToDownload(rec) ==
    LET urls == NormalizeSnapshotUrls(rec.given, envSingleRaw, envManyRaw)
    IN IF Len(urls) = 0 THEN ToBundled([rec EXCEPT !.urls = urls])
       ELSE Emit([rec EXCEPT !.urls = urls, !.pc = "fetch", !.i = 1, !.fetches = @ + 1],
                 DownloadStart(urls[1]))

\* A loop that leaves at the first failure.
UrlFailedGivesUp(rec, error) ==
    ToBundled(Emit([rec EXCEPT !.errors = @ + 1], DownloadFailed(rec.urls[rec.i], error)))

\* A loop that reports no failure.
UrlFailedSilent(rec, error) ==
    IF rec.i < Len(rec.urls)
    THEN Emit([rec EXCEPT !.pc = "fetch", !.i = @ + 1, !.fetches = @ + 1, !.errors = @ + 1,
                          !.tmp = 0, !.opened = FALSE],
              DownloadStart(rec.urls[rec.i + 1]))
    ELSE ToBundled([rec EXCEPT !.errors = @ + 1])

\* The catch block or the non-OK branch of the loop: emit download-failed with
\* the reason, push the error, go on with the next URL (download-start), or
\* leave the loop and throw (caught by the caller).
UrlFailed(rec, error) ==
    LET failed == Emit([rec EXCEPT !.errors = @ + 1, !.tmp = 0, !.opened = FALSE],
                       DownloadFailed(rec.urls[rec.i], error))
    IN IF rec.i < Len(rec.urls)
       THEN Emit([failed EXCEPT !.pc = "fetch", !.i = @ + 1, !.fetches = @ + 1],
                 DownloadStart(rec.urls[rec.i + 1]))
       ELSE ToBundled(failed)

Attempts == 1..Len(attempts)
Calls == 1..Len(calls)

\* The attempts for dbPath whose stored promise has not settled.
PendingFor(dbPath) ==
    {a \in Attempts : attempts[a].path = dbPath /\ attempts[a].pc # "done"}

AllFiles ==
    DestPaths \cup {BundledPath}
        \cup {TempPathFor(d, t) : d \in DestPaths, t \in Stamps}

\* What Date.now() may return when tempPathFor reads it: the clock not
\* running backwards, the millisecond of the reading before or a later one
\* (only the order of the stamps matters).
DateNow == {t \in Stamps : t = clock \/ t = clock + 1}

\* The destinations before the first call: missing, a directory, too small, or
\* a valid snapshot; the bundled file likewise.
InitialFiles ==
    {Absent, Directory, FileOf(MIN_SNAPSHOT_BYTES - 1, <<"old">>, TRUE),
     FileOf(256, <<"old">>, TRUE)}
BundledFiles ==
    {Absent, Directory, FileOf(MIN_SNAPSHOT_BYTES - 1, <<"bundled">>, TRUE),
     FileOf(512, <<"bundled">>, TRUE)}

SnapInit ==
    /\ inFlightByPath = [d \in DestPaths |-> NoAttempt]
    /\ attempts = <<>>
    /\ calls = <<>>
    /\ clock = 0
    /\ \E d0 \in InitialFiles, b0 \in BundledFiles :
          files = [f \in AllFiles |->
                      IF f = BundledPath THEN b0
                      ELSE IF f \in DestPaths THEN d0
                      ELSE Absent]

\* ensureDocsParquet(options): return the in-flight promise of the resolved
\* path, or start ensureDocsParquetInternal, attach the finally callback and
\* store the promise. A call that finds a promise never reads its own options:
\* dropped is the force flag it was given and that nothing looked at.
EnsureDocsParquet(raw, force, given) ==
    /\ Len(calls) < MaxCalls
    /\ LET dbPath == Resolve(raw)
           existing == InFlightGet(inFlightByPath, dbPath)
           a == Len(attempts) + 1
       IN IF existing # NoAttempt
          THEN /\ calls' = Append(calls, [attempt |-> existing, joined |-> PendingFor(dbPath),
                                          dropped |-> force])
               /\ UNCHANGED <<inFlightByPath, attempts>>
          ELSE /\ Len(attempts) < MaxAttempts
               /\ calls' = Append(calls, [attempt |-> a, joined |-> PendingFor(dbPath),
                                          dropped |-> FALSE])
               /\ attempts' = Append(attempts, [NewAttempt(dbPath, force, given)
                                                    EXCEPT !.before = files[dbPath]])
               /\ inFlightByPath' = InFlightSet(inFlightByPath, dbPath, a)
    /\ UNCHANGED <<files, clock>>
    /\ UNCHANGED <<schedVars, retryVars, docsVars, auxVars>>

\* An entry that stats the destination whether or not force is set.
MkdirDoneIgnoresForce(a, ok) ==
    /\ attempts[a].pc = "mkdir"
    /\ ok \/ ~files[attempts[a].path].exists
    /\ attempts' = [attempts EXCEPT ![a] =
           IF ~ok THEN Settle(@, Failure("mkdir", FALSE))
           ELSE [@ EXCEPT !.pc = "stat"]]
    /\ UNCHANGED <<inFlightByPath, calls, files, clock>>
    /\ UNCHANGED <<schedVars, retryVars, docsVars, auxVars>>

\* await ensureDirectoryExists(dbPath) returns, or throws. fs.mkdir with
\* recursive: true succeeds on a directory that exists, so it can only throw
\* when the destination, and with it possibly its directory, is missing.
MkdirDone(a, ok) ==
    /\ attempts[a].pc = "mkdir"
    /\ ok \/ ~files[attempts[a].path].exists
    /\ attempts' = [attempts EXCEPT ![a] =
           IF ~ok THEN Settle(@, Failure("mkdir", FALSE))
           ELSE IF ~@.force THEN [@ EXCEPT !.pc = "stat"]
           ELSE ToDownload(@)]
    /\ UNCHANGED <<inFlightByPath, calls, files, clock>>
    /\ UNCHANGED <<schedVars, retryVars, docsVars, auxVars>>

\* An entry check that returns the file it finds whatever its size.
StatDoneAnySize(a, ok) ==
    /\ attempts[a].pc = "stat"
    /\ LET f == files[attempts[a].path]
       IN attempts' = [attempts EXCEPT ![a] =
              IF ~ok THEN Settle(@, Failure("stat", FALSE))
              ELSE IF ~(f.exists /\ f.isFile) THEN ToDownload(@)
              ELSE LET result == Result(@.path, "existing", FALSE, f.size, NoUrl)
                   IN Settle(Emit(Emit(@, SkipExisting(f.size)), Done(result)), result)]
    /\ UNCHANGED <<inFlightByPath, calls, files, clock>>
    /\ UNCHANGED <<schedVars, retryVars, docsVars, auxVars>>

\* An entry check that never trusts the file it finds.
StatDoneIgnoresExisting(a, ok) ==
    /\ attempts[a].pc = "stat"
    /\ attempts' = [attempts EXCEPT ![a] =
           IF ~ok THEN Settle(@, Failure("stat", FALSE)) ELSE ToDownload(@)]
    /\ UNCHANGED <<inFlightByPath, calls, files, clock>>
    /\ UNCHANGED <<schedVars, retryVars, docsVars, auxVars>>

\* await statIfExists(dbPath) settles (force is not set): fs.stat throwing
\* anything but ENOENT rejects the call; an existing regular file is
\* size-checked and returned as it is; a missing path, or one that is no
\* regular file, leads to the download.
StatDone(a, ok) ==
    /\ attempts[a].pc = "stat"
    /\ LET f == files[attempts[a].path]
       IN attempts' = [attempts EXCEPT ![a] =
              IF ~ok THEN Settle(@, Failure("stat", FALSE))
              ELSE IF ~(f.exists /\ f.isFile) THEN ToDownload(@)
              ELSE IF ~ValidSnapshotSize(f.size) THEN Settle(@, Failure("small-existing", FALSE))
              ELSE LET result == Result(@.path, "existing", FALSE, f.size, NoUrl)
                   IN Settle(Emit(Emit(@, SkipExisting(f.size)), Done(result)), result)]
    /\ UNCHANGED <<inFlightByPath, calls, files, clock>>
    /\ UNCHANGED <<schedVars, retryVars, docsVars, auxVars>>

\* await fetch(url) returns or throws: a thrown error or a non-OK response
\* fails the URL, an OK response is read (await response.arrayBuffer()).
FetchDone(a, resp) ==
    /\ attempts[a].pc = "fetch"
    /\ attempts' = [attempts EXCEPT ![a] =
           IF resp.kind = "ok" THEN [@ EXCEPT !.pc = "body", !.size = resp.size]
           ELSE UrlFailed(@, IF resp.kind = "http" THEN NotOk ELSE FetchThrew)]
    /\ UNCHANGED <<inFlightByPath, calls, files, clock>>
    /\ UNCHANGED <<schedVars, retryVars, docsVars, auxVars>>

\* A download loop that stores whatever an OK response carries.
BodyDoneAnySize(a, ok) ==
    /\ attempts[a].pc = "body"
    /\ LET rec == attempts[a]
       IN IF ok
          THEN \E t \in DateNow :
                  /\ clock' = t
                  /\ attempts' = [attempts EXCEPT ![a] = [@ EXCEPT !.pc = "writing", !.tmp = t]]
          ELSE /\ attempts' = [attempts EXCEPT ![a] = UrlFailed(@, BodyThrew)]
               /\ UNCHANGED clock
    /\ UNCHANGED <<inFlightByPath, calls, files>>
    /\ UNCHANGED <<schedVars, retryVars, docsVars, auxVars>>

\* await response.arrayBuffer() returns or throws. The body is size-checked
\* (assertValidSnapshotSize) and handed to writeBufferAtomic, which names the
\* temp file (tempPathFor) and calls fs.writeFile.
BodyDone(a, ok) ==
    /\ attempts[a].pc = "body"
    /\ LET rec == attempts[a]
       IN IF ok /\ ValidSnapshotSize(rec.size)
          THEN \E t \in DateNow :
                  /\ clock' = t
                  /\ attempts' = [attempts EXCEPT ![a] = [@ EXCEPT !.pc = "writing", !.tmp = t]]
          ELSE /\ attempts' = [attempts EXCEPT ![a] =
                      UrlFailed(@, IF ok THEN TooSmall(rec.size) ELSE BodyThrew)]
               /\ UNCHANGED clock
    /\ UNCHANGED <<inFlightByPath, calls, files>>
    /\ UNCHANGED <<schedVars, retryVars, docsVars, auxVars>>

\* fs.writeFile / fs.copyFile opens the temp file: it is created, or the one
\* that is there is emptied, and the bytes start to go in.
WriteOpens(a) ==
    /\ attempts[a].pc \in {"writing", "copying"} /\ ~attempts[a].opened
    /\ LET rec == attempts[a]
           tmp == TempPathFor(rec.path, rec.tmp)
       IN /\ files' = [files EXCEPT ![tmp] =
                          FileOf(rec.size,
                                 IF rec.pc = "writing" THEN rec.urls[rec.i] ELSE <<"bundled">>,
                                 FALSE)]
          /\ attempts' = [attempts EXCEPT ![a].opened = TRUE]
    /\ UNCHANGED <<inFlightByPath, calls, clock>>
    /\ UNCHANGED <<schedVars, retryVars, docsVars, auxVars>>

\* fs.writeFile / fs.copyFile has written everything; fs.rename(tmp, dbPath) is called.
WriteEnds(a) ==
    /\ attempts[a].pc \in {"writing", "copying"} /\ attempts[a].opened
    /\ LET rec == attempts[a]
           tmp == TempPathFor(rec.path, rec.tmp)
       IN /\ files' = [files EXCEPT ![tmp] = [@ EXCEPT !.complete = TRUE]]
          /\ attempts' = [attempts EXCEPT ![a] =
                 [@ EXCEPT !.pc = IF rec.pc = "writing" THEN "rename" ELSE "crename",
                           !.opened = FALSE]]
    /\ UNCHANGED <<inFlightByPath, calls, clock>>
    /\ UNCHANGED <<schedVars, retryVars, docsVars, auxVars>>

\* What a write that threw leaves of the temp file: fs.writeFile and
\* fs.copyFile that fail before they open it leave the directory as it was;
\* fs.writeFile that fails later (disk full) leaves what it wrote; fs.copyFile
\* that fails after it opened the target removes the target.
AfterFailedWrite(rec) ==
    IF rec.pc = "copying" /\ rec.opened
    THEN [files EXCEPT ![TempPathFor(rec.path, rec.tmp)] = Absent]
    ELSE files

\* fs.writeFile / fs.copyFile throws, before or after it opened the temp
\* file: in the download loop the catch block goes on with the next URL, the
\* bundled copy rejects.
WriteFails(a) ==
    /\ attempts[a].pc \in {"writing", "copying"}
    /\ files' = AfterFailedWrite(attempts[a])
    /\ attempts' = [attempts EXCEPT ![a] =
           IF @.pc = "writing" THEN UrlFailed(@, WriteThrew)
           ELSE Settle(@, Failure("copy", FALSE))]
    /\ UNCHANGED <<inFlightByPath, calls, clock>>
    /\ UNCHANGED <<schedVars, retryVars, docsVars, auxVars>>

\* await fs.rename(tmp, dbPath) returns: the destination, which is no
\* directory, is replaced in one step and the result is returned
\* (download-success / copy-success, done).
RenameDone(a) ==
    /\ attempts[a].pc \in {"rename", "crename"}
    /\ files[attempts[a].path].exists => files[attempts[a].path].isFile
    /\ LET rec == attempts[a]
           tmp == TempPathFor(rec.path, rec.tmp)
       IN /\ files' = IF tmp = rec.path THEN files
                      ELSE [files EXCEPT ![rec.path] = files[tmp], ![tmp] = Absent]
          /\ attempts' = [attempts EXCEPT ![a] =
                 IF rec.pc = "rename"
                 THEN LET result == Result(rec.path, "download", TRUE, rec.size, rec.urls[rec.i])
                      IN Settle(Emit(Emit(@, DownloadSuccess(rec.urls[rec.i], rec.size)),
                                     Done(result)), result)
                 ELSE LET result == Result(rec.path, "bundled-copy", TRUE, rec.size, NoUrl)
                      IN Settle(Emit(Emit(@, CopySuccess(BundledPath, rec.size)),
                                     Done(result)), result)]
    /\ UNCHANGED <<inFlightByPath, calls, clock>>
    /\ UNCHANGED <<schedVars, retryVars, docsVars, auxVars>>

\* await fs.rename(tmp, dbPath) throws (a directory at dbPath, a destination
\* that may not be replaced): the temp file and the destination stay; in the
\* download loop the catch block goes on with the next URL, the bundled copy
\* rejects.
RenameFails(a) ==
    /\ attempts[a].pc \in {"rename", "crename"}
    /\ attempts' = [attempts EXCEPT ![a] =
           IF @.pc = "rename" THEN UrlFailed(@, RenameThrew)
           ELSE Settle(@, Failure("rename", FALSE))]
    /\ UNCHANGED <<inFlightByPath, calls, files, clock>>
    /\ UNCHANGED <<schedVars, retryVars, docsVars, auxVars>>

\* await statIfExists(sourcePath) settles in tryCopyBundledSnapshot: a stat
\* error but ENOENT rejects the call; no regular file means null and the final
\* error with the rescrape hint; a file is size-checked and copied with
\* copyFileAtomic, which names the temp file and calls fs.copyFile.
BundledStatDone(a, ok) ==
    /\ attempts[a].pc = "bstat"
    /\ LET f == files[BundledPath]
           rec == attempts[a]
       IN IF ~ok
          THEN /\ attempts' = [attempts EXCEPT ![a] = Settle(@, Failure("bstat", FALSE))]
               /\ UNCHANGED clock
          ELSE IF ~(f.exists /\ f.isFile)
          THEN /\ attempts' = [attempts EXCEPT ![a] =
                      Settle(@, Failure(IF @.errors > 0 THEN "download" ELSE "none", TRUE))]
               /\ UNCHANGED clock
          ELSE IF ~ValidSnapshotSize(f.size)
          THEN /\ attempts' = [attempts EXCEPT ![a] =
                      Settle(Emit(@, CopyStart(BundledPath)), Failure("small-bundled", FALSE))]
               /\ UNCHANGED clock
          ELSE \E t \in DateNow :
                  /\ clock' = t
                  /\ attempts' = [attempts EXCEPT ![a] =
                         Emit([@ EXCEPT !.pc = "copying", !.size = f.size, !.tmp = t],
                              CopyStart(BundledPath))]
    /\ UNCHANGED <<inFlightByPath, calls, files>>
    /\ UNCHANGED <<schedVars, retryVars, docsVars, auxVars>>

\* .then(() => delete) in place of .finally: the entry of a rejected attempt stays.
FinallyOnlyOnSuccess(a) ==
    /\ attempts[a].pc = "settled"
    /\ inFlightByPath' =
           IF InFlightGet(inFlightByPath, attempts[a].path) = a /\ attempts[a].out.kind = "result"
           THEN InFlightDelete(inFlightByPath, attempts[a].path)
           ELSE inFlightByPath
    /\ attempts' = [attempts EXCEPT ![a] = Forget(@)]
    /\ UNCHANGED <<calls, files, clock>>
    /\ UNCHANGED <<schedVars, retryVars, docsVars, auxVars>>

\* .finally(() => { if (inFlightByPath.get(dbPath) === promise) inFlightByPath.delete(dbPath) }):
\* runs once the internal promise has settled; the stored promise settles after it.
FinallyDelete(a) ==
    /\ attempts[a].pc = "settled"
    /\ inFlightByPath' =
           IF InFlightGet(inFlightByPath, attempts[a].path) = a
           THEN InFlightDelete(inFlightByPath, attempts[a].path)
           ELSE inFlightByPath
    /\ attempts' = [attempts EXCEPT ![a] = Forget(@)]
    /\ UNCHANGED <<calls, files, clock>>
    /\ UNCHANGED <<schedVars, retryVars, docsVars, auxVars>>

SnapNext ==
    \/ \E raw \in RawPaths, force \in BOOLEAN, given \in SnapshotUrlArgs :
          EnsureDocsParquet(raw, force, given)
    \/ \E a \in Attempts, ok \in BOOLEAN : MkdirDone(a, ok)
    \/ \E a \in Attempts, ok \in BOOLEAN : StatDone(a, ok)
    \/ \E a \in Attempts, resp \in Responses : FetchDone(a, resp)
    \/ \E a \in Attempts, ok \in BOOLEAN : BodyDone(a, ok)
    \/ \E a \in Attempts : WriteOpens(a)
    \/ \E a \in Attempts : WriteEnds(a)
    \/ \E a \in Attempts : WriteFails(a)
    \/ \E a \in Attempts : RenameDone(a)
    \/ \E a \in Attempts : RenameFails(a)
    \/ \E a \in Attempts, ok \in BOOLEAN : BundledStatDone(a, ok)
    \/ \E a \in Attempts : FinallyDelete(a)

\* The promise a call returned has settled, and with what.
CallSettled(c) == attempts[calls[c].attempt].pc = "done"
CallOutcome(c) == attempts[calls[c].attempt].out

(***************************************************************************)
(* fetchWithRetry: src/src/docs/snapshot.ts 335-373 (the same code as      *)
(* src/src/docs/fetch.ts 46-85).                                           *)
(***************************************************************************)
\* One retry too many.
MAX_RETRIES_PlusOne == 3 + 1
MAX_RETRIES == 3
BASE_DELAY_MS == 1000
BACKOFF_FACTOR == 2

\* The statuses a response may carry, and a thrown transport error.
Statuses == {200, 204, 304, 404, 499, 500, 503}
HttpResponse(status) == [kind |-> "http", status |-> status]
TransportError == [kind |-> "transport", status |-> 0]
NoError == [kind |-> "none", status |-> 0]

\* Error(`HTTP ${response.status} ...`) carries the status of the response.
HttpError(status) == [kind |-> "http", status |-> status]

\* response.ok
OkOnly200(status) == status = 200
Ok(status) == status >= 200 /\ status <= 299

\* isRetryable(status)
IsRetryable4xx(status) == status >= 400
IsRetryable(status) == status >= 500

\* Math.pow(b, n) for a natural n
RECURSIVE Pow(_, _)
Pow(b, n) == IF n = 0 THEN 1 ELSE b * Pow(b, n - 1)

\* Math.random() in [0, 1), in hundredths.
Randoms == {0, 50, 99}

\* computeDelay(attempt) = BASE_DELAY_MS * BACKOFF_FACTOR^attempt * jitter with
\* jitter = 1 - JITTER_RANGE + random * JITTER_RANGE * 2, JITTER_RANGE = 0.25.
ComputeDelayNoBackoff(n, random) == (BASE_DELAY_MS * (750 + 5 * random)) \div 1000
ComputeDelay(n, random) == (BASE_DELAY_MS * Pow(BACKOFF_FACTOR, n) * (750 + 5 * random)) \div 1000

\* The state after the call ran to its first await: attempt 0, no delay,
\* fetch(url) called.
RetryInit ==
    /\ attempt = 0
    /\ retryPc = "fetch"
    /\ fetchCalls = 1
    /\ responses = <<>>
    /\ delays = <<>>
    /\ lastError = NoError
    /\ thrown = NoError

\* The end of a loop body that did not return or throw: attempt++, then the
\* loop test attempt <= MAX_RETRIES; the next iteration awaits its delay; past
\* the loop lastError is thrown.
NextIteration(err, random) ==
    /\ attempt' = attempt + 1
    /\ lastError' = err
    /\ IF attempt + 1 <= MAX_RETRIES
       THEN /\ retryPc' = "delay"
            /\ delays' = Append(delays, ComputeDelay(attempt, random))
            /\ UNCHANGED thrown
       ELSE /\ retryPc' = "rejected"
            /\ thrown' = err
            /\ UNCHANGED delays

\* throw: the promise of fetchWithRetry rejects.
Throw(err, last) ==
    /\ retryPc' = "rejected"
    /\ thrown' = err
    /\ lastError' = last
    /\ UNCHANGED <<attempt, delays>>

\* await fetch(url) returns a response.
FetchReturns(status, random) ==
    /\ retryPc = "fetch"
    /\ responses' = Append(responses, HttpResponse(status))
    /\ IF Ok(status)
       THEN /\ retryPc' = "resolved"
            /\ UNCHANGED <<attempt, delays, lastError, thrown>>
       ELSE IF ~IsRetryable(status) THEN Throw(HttpError(status), lastError)
       ELSE IF attempt = MAX_RETRIES THEN Throw(HttpError(status), HttpError(status))
       ELSE NextIteration(HttpError(status), random)
    /\ UNCHANGED fetchCalls
    /\ UNCHANGED <<schedVars, snapVars, docsVars, auxVars>>

\* await fetch(url) throws.
FetchThrows(random) ==
    /\ retryPc = "fetch"
    /\ responses' = Append(responses, TransportError)
    /\ IF attempt < MAX_RETRIES
       THEN NextIteration(TransportError, random)
       ELSE Throw(TransportError, TransportError)
    /\ UNCHANGED fetchCalls
    /\ UNCHANGED <<schedVars, snapVars, docsVars, auxVars>>

\* The timer of the backoff fires: fetch(url) is called again.
DelayElapsed ==
    /\ retryPc = "delay"
    /\ retryPc' = "fetch"
    /\ fetchCalls' = fetchCalls + 1
    /\ UNCHANGED <<attempt, responses, delays, lastError, thrown>>
    /\ UNCHANGED <<schedVars, snapVars, docsVars, auxVars>>

RetryNext ==
    \/ \E status \in Statuses, random \in Randoms : FetchReturns(status, random)
    \/ \E random \in Randoms : FetchThrows(random)
    \/ DelayElapsed

(***************************************************************************)
(* fetchAllDocs: src/src/docs/snapshot.ts 482-557. writeParquet is not     *)
(* part of the sources at hand: it is a call that succeeds or throws.      *)
(***************************************************************************)
MaxPages == 2

DEFAULT_CONCURRENCY == 15
BATCH_SIZE == 100
PAGEFIND_BASE == "https://www.palantir.com/docs/pagefind"

\* options.concurrency; 0 stands for an option that is left out or is not a
\* positive number.
ConcurrencyOptions == {0, 1, 2}
\* options.progressEvery counted in halves (0.5, 1, 1.5, 2.5); 0 stands for an
\* option that is left out or is not a positive number.
ProgressEveryOptions == {0, 1, 2, 3, 5}
NoOptions == [concurrency |-> 0, progressEvery |-> 0]

\* typeof options.concurrency === 'number' && options.concurrency > 0 ? ... : DEFAULT_CONCURRENCY
Concurrency(opt) == IF opt > 0 THEN opt ELSE DEFAULT_CONCURRENCY

\* typeof options.progressEvery === 'number' && options.progressEvery > 0
\*     ? Math.floor(options.progressEvery) : BATCH_SIZE
\* opt is in halves: an option below 1 gives 0.
ProgressEveryOf(opt) == IF opt > 0 THEN opt \div 2 ELSE BATCH_SIZE

\* processedPages % progressEvery === 0: n % 0 is NaN, which equals nothing.
IsMultiple(n, every) == every # 0 /\ n % every = 0

\* entry.languages as the entry point lists it: language keys with their hash.
Lang(key, hash) == [key |-> key, hash |-> hash]
EntryLanguages ==
    { <<>>,
      <<Lang("en", "hashEn")>>,
      <<Lang("de", "hashDe"), Lang("en", "hashEn")>> }

\* const langKey = Object.keys(entry.languages)[0]; if (!langKey) throw
NoLanguage(langs) == Len(langs) = 0 \/ langs[1].key = ""

\* entry.languages[langKey].hash
LangHashLast(langs) == langs[Len(langs)].hash
LangHash(langs) == langs[1].hash

\* The page indexes the pf_meta file may decode to: decoded[1].map(page => page[0]).
HashNames == <<"h2", "h1", "h3", "h4">>
PageIndexes == {SubSeq(HashNames, 1, n) : n \in 0..MaxPages}

\* `${PAGEFIND_BASE}/fragment/${hash}.pf_fragment`, as the pieces of the template.
FragmentUrl(hash) == <<PAGEFIND_BASE, "/fragment/", hash, ".pf_fragment">>

\* The PageRecord fetchFragment(hash) resolves with.
PageRecord(hash) == [page |-> hash]

\* What makes fetchFragment(hash) reject: a 404, retries exhausted, or a body
\* that does not decompress or parse.
FragmentFailures == {"http404", "exhausted", "undecodable"}

\* The events of FetchProgressEvent.
Discovered(total) == [type |-> "discovered", totalPages |-> total]
Progress(processed, total) ==
    [type |-> "progress", processedPages |-> processed, totalPages |-> total]
PageFailed(url, error) == [type |-> "page-failed", url |-> url, error |-> error]
Completed(total, fetched, failed) ==
    [type |-> "completed", totalPages |-> total, fetchedPages |-> fetched, failedPages |-> failed]

NoResult == [totalPages |-> -1, fetchedPages |-> -1, failedUrls |-> <<>>]
FetchResult(total, fetched, failed) ==
    [totalPages |-> total, fetchedPages |-> fetched, failedUrls |-> failed]

NotSettled == -1

\* The indices of arr, in order, whose slot is a fulfilled result / is not.
FulfilledIndices(arr) ==
    SelectSeq([i \in 1..Len(arr) |-> i], LAMBDA i : arr[i].status = "fulfilled")
OtherIndices(arr) ==
    SelectSeq([i \in 1..Len(arr) |-> i], LAMBDA i : arr[i].status # "fulfilled")

\* for (i...) if (result.status === 'fulfilled') fetchedRecords.push(result.value):
\* the value of task i is the record of page i.
CollectRecords(arr, hashes) ==
    LET idx == FulfilledIndices(arr)
    IN [k \in 1..Len(idx) |-> PageRecord(hashes[arr[idx[k]].value])]

\* A loop that keeps the URL of the first failure only.
CollectFailedUrlsFirstOnly(arr, hashes) ==
    LET idx == OtherIndices(arr)
    IN [k \in 1..Min(1, Len(idx)) |-> FragmentUrl(hashes[idx[k]])]

\* A loop that names the k-th failure after the k-th page of the index.
CollectFailedUrlsByPosition(arr, hashes) ==
    LET idx == OtherIndices(arr)
    IN [k \in 1..Len(idx) |-> FragmentUrl(hashes[k])]

\* ... else failedUrls.push(`${PAGEFIND_BASE}/fragment/${pageHashes[i]}.pf_fragment`)
CollectFailedUrls(arr, hashes) ==
    LET idx == OtherIndices(arr)
    IN [k \in 1..Len(idx) |-> FragmentUrl(hashes[idx[k]])]

\* The state after fetchAllDocs(dbPath, options) ran to its first await:
\* fetchEntryPoint is pending and nothing else has happened.
DocsInit ==
    /\ options \in [concurrency : ConcurrencyOptions, progressEvery : ProgressEveryOptions]
    /\ docPc = "entry" /\ docError = "none"
    /\ entryLangs = <<>> /\ metaHash = "" /\ pageHashes = <<>> /\ progressEvery = 0
    /\ chain = <<>> /\ fragOutcome = <<>> /\ processedPages = 0 /\ events = <<>>
    /\ fetchedRecords = <<>> /\ failedUrls = <<>> /\ writerCalls = <<>>
    /\ docResult = NoResult /\ eventsAtSettle = NotSettled
    /\ variant = "snapshot" /\ tasks = 0 /\ limit = 1 /\ called = FALSE
    /\ running = 0 /\ index = 0 /\ completed = 0 /\ results = <<>>
    /\ taskState = <<>> /\ outcome = <<>> /\ startCount = <<>>
    /\ resolved = FALSE /\ maxConcurrent = 0

\* throw out of fetchAllDocs: the returned promise rejects.
DocsReject(why) ==
    /\ docPc' = "rejected"
    /\ docError' = why
    /\ eventsAtSettle' = Len(events)

\* await fetchEntryPoint() throws (fetch failed after retries, or no JSON).
EntryFails ==
    /\ docPc = "entry"
    /\ DocsReject("entry")
    /\ UNCHANGED <<options, entryLangs, metaHash, pageHashes, progressEvery, chain,
                   fragOutcome, processedPages, events, fetchedRecords, failedUrls,
                   writerCalls, docResult>>
    /\ UNCHANGED <<schedVars, snapVars, retryVars, auxVars>>

\* await fetchEntryPoint() returns: the options are read, the first language
\* key is taken and fetchAndParseMeta(langHash) is called, or the call throws
\* for want of a language.
EntryFetched(langs) ==
    /\ docPc = "entry"
    /\ entryLangs' = langs
    /\ limit' = Concurrency(options.concurrency)
    /\ progressEvery' = ProgressEveryOf(options.progressEvery)
    /\ IF NoLanguage(langs)
       THEN /\ DocsReject("no-language")
            /\ UNCHANGED metaHash
       ELSE /\ metaHash' = LangHash(langs)
            /\ docPc' = "meta"
            /\ UNCHANGED <<docError, eventsAtSettle>>
    /\ UNCHANGED <<options, pageHashes, chain, fragOutcome, processedPages, events,
                   fetchedRecords, failedUrls, writerCalls, docResult>>
    /\ UNCHANGED <<variant, tasks, called, running, index, completed, results, taskState,
                   outcome, startCount, resolved, maxConcurrent>>
    /\ UNCHANGED <<snapVars, retryVars, auxVars>>

\* await fetchAndParseMeta(langHash) throws (fetch failed after retries, or the
\* index does not decompress or decode).
MetaFails ==
    /\ docPc = "meta"
    /\ DocsReject("meta")
    /\ UNCHANGED <<options, entryLangs, metaHash, pageHashes, progressEvery, chain,
                   fragOutcome, processedPages, events, fetchedRecords, failedUrls,
                   writerCalls, docResult>>
    /\ UNCHANGED <<schedVars, snapVars, retryVars, auxVars>>

\* A resumption that builds and starts the tasks without the 'discovered' event.
MetaFetchedQuiet(hashes) ==
    /\ docPc = "meta"
    /\ pageHashes' = hashes
    /\ chain' = [i \in 1..Len(hashes) |-> "pending"]
    /\ fragOutcome' = [i \in 1..Len(hashes) |-> "none"]
    /\ tasks' = Len(hashes)
    /\ called' = TRUE
    /\ completed' = 0
    /\ results' = NewResults(variant, Len(hashes))
    /\ outcome' = [i \in 1..Len(hashes) |-> "none"]
    /\ NextFnFrom(Len(hashes), limit, 0, 0, 0, results',
                  [i \in 1..Len(hashes) |-> "unstarted"], [i \in 1..Len(hashes) |-> 0], 0)
    /\ docPc' = "tasks"
    /\ UNCHANGED <<options, docError, entryLangs, metaHash, progressEvery, processedPages,
                   events, fetchedRecords, failedUrls, writerCalls, docResult, eventsAtSettle>>
    /\ UNCHANGED <<variant, limit>>
    /\ UNCHANGED <<snapVars, retryVars, auxVars>>

\* await fetchAndParseMeta(langHash) returns the page hashes: 'discovered' is
\* emitted, the tasks are built and withConcurrencyLimit(tasks, concurrency)
\* runs its executor, whose next() starts the first tasks (or resolves at once
\* when there is no page).
MetaFetched(hashes) ==
    /\ docPc = "meta"
    /\ pageHashes' = hashes
    /\ events' = Append(events, Discovered(Len(hashes)))
    /\ chain' = [i \in 1..Len(hashes) |-> "pending"]
    /\ fragOutcome' = [i \in 1..Len(hashes) |-> "none"]
    /\ tasks' = Len(hashes)
    /\ called' = TRUE
    /\ completed' = 0
    /\ results' = NewResults(variant, Len(hashes))
    /\ outcome' = [i \in 1..Len(hashes) |-> "none"]
    /\ NextFnFrom(Len(hashes), limit, 0, 0, 0, results',
                  [i \in 1..Len(hashes) |-> "unstarted"], [i \in 1..Len(hashes) |-> 0], 0)
    /\ docPc' = "tasks"
    /\ UNCHANGED <<options, docError, entryLangs, metaHash, progressEvery, processedPages,
                   fetchedRecords, failedUrls, writerCalls, docResult, eventsAtSettle>>
    /\ UNCHANGED <<variant, limit>>
    /\ UNCHANGED <<snapVars, retryVars, auxVars>>

\* fetchFragment(hash) of a started task resolves with the page's record.
FragmentFulfils(i) ==
    /\ taskState[i] = "inflight"
    /\ chain[i] = "pending"
    /\ chain' = [chain EXCEPT ![i] = "fulfilled"]
    /\ fragOutcome' = [fragOutcome EXCEPT ![i] = "ok"]
    /\ UNCHANGED <<options, docPc, docError, entryLangs, metaHash, pageHashes, progressEvery,
                   processedPages, events, fetchedRecords, failedUrls, writerCalls,
                   docResult, eventsAtSettle>>
    /\ UNCHANGED <<schedVars, snapVars, retryVars, auxVars>>

\* fetchFragment(hash) of a started task rejects.
FragmentRejects(i, why) ==
    /\ taskState[i] = "inflight"
    /\ chain[i] = "pending"
    /\ chain' = [chain EXCEPT ![i] = "rejected"]
    /\ fragOutcome' = [fragOutcome EXCEPT ![i] = why]
    /\ UNCHANGED <<options, docPc, docError, entryLangs, metaHash, pageHashes, progressEvery,
                   processedPages, events, fetchedRecords, failedUrls, writerCalls,
                   docResult, eventsAtSettle>>
    /\ UNCHANGED <<schedVars, snapVars, retryVars, auxVars>>

\* A catch handler that rethrows without reporting the page.
PageCatchSilent(i) ==
    /\ chain[i] = "rejected"
    /\ chain' = [chain EXCEPT ![i] = "reported"]
    /\ UNCHANGED <<options, docPc, docError, entryLangs, metaHash, pageHashes, progressEvery,
                   fragOutcome, processedPages, events, fetchedRecords, failedUrls,
                   writerCalls, docResult, eventsAtSettle>>
    /\ UNCHANGED <<schedVars, snapVars, retryVars, auxVars>>

\* .catch((error) => { onProgress({type: 'page-failed', url, error}); throw error })
PageCatch(i) ==
    /\ chain[i] = "rejected"
    /\ events' = Append(events, PageFailed(FragmentUrl(pageHashes[i]), fragOutcome[i]))
    /\ chain' = [chain EXCEPT ![i] = "reported"]
    /\ UNCHANGED <<options, docPc, docError, entryLangs, metaHash, pageHashes, progressEvery,
                   fragOutcome, processedPages, fetchedRecords, failedUrls, writerCalls,
                   docResult, eventsAtSettle>>
    /\ UNCHANGED <<schedVars, snapVars, retryVars, auxVars>>

\* A finally handler that reports at the multiples of progressEvery only.
PageFinallyMultiplesOnly(i) ==
    /\ chain[i] \in {"fulfilled", "reported"}
    /\ processedPages' = processedPages + 1
    /\ events' =
           IF IsMultiple(processedPages', progressEvery)
           THEN Append(events, Progress(processedPages', Len(pageHashes)))
           ELSE events
    /\ chain' = [chain EXCEPT ![i] = "finalized"]
    /\ taskState' = [taskState EXCEPT ![i] = "settled"]
    /\ outcome' = [outcome EXCEPT ![i] = IF fragOutcome[i] = "ok" THEN "fulfilled" ELSE "rejected"]
    /\ UNCHANGED <<options, docPc, docError, entryLangs, metaHash, pageHashes, progressEvery,
                   fragOutcome, fetchedRecords, failedUrls, writerCalls, docResult,
                   eventsAtSettle>>
    /\ UNCHANGED <<variant, tasks, limit, called, running, index, completed, results,
                   startCount, resolved, maxConcurrent>>
    /\ UNCHANGED <<snapVars, retryVars, auxVars>>

\* .finally(() => { processedPages += 1; if (...) onProgress({type: 'progress', ...}) }),
\* after which the task's promise settles the way fetchFragment(hash) did.
PageFinally(i) ==
    /\ chain[i] \in {"fulfilled", "reported"}
    /\ processedPages' = processedPages + 1
    /\ events' =
           IF IsMultiple(processedPages', progressEvery) \/ processedPages' = Len(pageHashes)
           THEN Append(events, Progress(processedPages', Len(pageHashes)))
           ELSE events
    /\ chain' = [chain EXCEPT ![i] = "finalized"]
    /\ taskState' = [taskState EXCEPT ![i] = "settled"]
    /\ outcome' = [outcome EXCEPT ![i] = IF fragOutcome[i] = "ok" THEN "fulfilled" ELSE "rejected"]
    /\ UNCHANGED <<options, docPc, docError, entryLangs, metaHash, pageHashes, progressEvery,
                   fragOutcome, fetchedRecords, failedUrls, writerCalls, docResult,
                   eventsAtSettle>>
    /\ UNCHANGED <<variant, tasks, limit, called, running, index, completed, results,
                   startCount, resolved, maxConcurrent>>
    /\ UNCHANGED <<snapVars, retryVars, auxVars>>

\* A resumption that gives up when a task was rejected.
ResultsAwaitedAllOrNothing ==
    /\ docPc = "tasks"
    /\ resolved
    /\ IF OtherIndices(results) # <<>>
       THEN /\ DocsReject("fragment")
            /\ UNCHANGED <<fetchedRecords, failedUrls, writerCalls>>
       ELSE /\ fetchedRecords' = CollectRecords(results, pageHashes)
            /\ failedUrls' = <<>>
            /\ writerCalls' = Append(writerCalls, fetchedRecords')
            /\ docPc' = "write"
            /\ UNCHANGED <<docError, eventsAtSettle>>
    /\ UNCHANGED <<options, entryLangs, metaHash, pageHashes, progressEvery, chain,
                   fragOutcome, processedPages, events, docResult>>
    /\ UNCHANGED <<schedVars, snapVars, retryVars, auxVars>>

\* await withConcurrencyLimit(...) returns: the results are split into
\* fetchedRecords and failedUrls and writeParquet(fetchedRecords, dbPath) is called.
ResultsAwaited ==
    /\ docPc = "tasks"
    /\ resolved
    /\ fetchedRecords' = CollectRecords(results, pageHashes)
    /\ failedUrls' = CollectFailedUrls(results, pageHashes)
    /\ writerCalls' = Append(writerCalls, fetchedRecords')
    /\ docPc' = "write"
    /\ UNCHANGED <<options, docError, entryLangs, metaHash, pageHashes, progressEvery, chain,
                   fragOutcome, processedPages, events, docResult, eventsAtSettle>>
    /\ UNCHANGED <<schedVars, snapVars, retryVars, auxVars>>

\* await writeParquet(...) returns: 'completed' is emitted and the result returned.
WriteDone ==
    /\ docPc = "write"
    /\ events' = Append(events, Completed(Len(pageHashes), Len(fetchedRecords), Len(failedUrls)))
    /\ docResult' = FetchResult(Len(pageHashes), Len(fetchedRecords), failedUrls)
    /\ docPc' = "returned"
    /\ eventsAtSettle' = Len(events')
    /\ UNCHANGED <<options, docError, entryLangs, metaHash, pageHashes, progressEvery, chain,
                   fragOutcome, processedPages, fetchedRecords, failedUrls, writerCalls>>
    /\ UNCHANGED <<schedVars, snapVars, retryVars, auxVars>>

\* await writeParquet(...) throws.
WriteThrows ==
    /\ docPc = "write"
    /\ DocsReject("write")
    /\ UNCHANGED <<options, entryLangs, metaHash, pageHashes, progressEvery, chain,
                   fragOutcome, processedPages, events, fetchedRecords, failedUrls,
                   writerCalls, docResult>>
    /\ UNCHANGED <<schedVars, snapVars, retryVars, auxVars>>

DocsNext ==
    \/ EntryFails
    \/ \E langs \in EntryLanguages : EntryFetched(langs)
    \/ MetaFails
    \/ \E hashes \in PageIndexes : MetaFetched(hashes)
    \/ \E i \in TaskIds : FragmentFulfils(i)
    \/ \E i \in TaskIds, why \in FragmentFailures : FragmentRejects(i, why)
    \/ \E i \in TaskIds : PageCatch(i)
    \/ \E i \in TaskIds : PageFinally(i)
    \/ \E i \in TaskIds : ThenCallback(i)
    \/ \E i \in TaskIds : CatchCallback(i)
    \/ \E i \in TaskIds : FinallyCallback(i)
    \/ ResultsAwaited
    \/ WriteDone
    \/ WriteThrows

(***************************************************************************)
(* decompressPagefind: src/src/docs/snapshot.ts 321-333 (and the older     *)
(* src/src/docs/fetch.ts 36-44). Buffers are sequences of bytes.           *)
(***************************************************************************)
MaxPayload == 3

PAGEFIND_HEADER_SIZE == 12

\* What a call has produced: nothing yet, a returned buffer or a thrown error.
NotCalled == [kind |-> "none"]
Returned(bytes) == [kind |-> "returned", value |-> bytes]
Threw(message) == [kind |-> "threw", message |-> message]

\* "pagefind_dcd" in ASCII, and headers of the same size with other content.
PagefindMagic == <<112, 97, 103, 101, 102, 105, 110, 100, 95, 100, 99, 100>>
Headers ==
    { PagefindMagic,
      [i \in 1..PAGEFIND_HEADER_SIZE |-> 0],
      [PagefindMagic EXCEPT ![1] = 31, ![2] = 139] }

PayloadBytes == {0, 120}
SeqsUpTo(S, n) == UNION {[1..k -> S] : k \in 0..n}
Payloads == SeqsUpTo(PayloadBytes, MaxPayload)

\* The compressed stream: a two-byte magic, the data as (count, byte) runs
\* closed by a zero count, a checksum of the data and its length. The form of
\* the stream differs from zlib's; like zlib's it is read front to back, it is
\* a bijection between data and well-formed streams, and inflating checks the
\* magic, the runs, the checksum and the length.
GzipMagic == <<31, 139>>

RECURSIVE ByteSum(_)
ByteSum(b) == IF b = <<>> THEN 0 ELSE (b[1] + ByteSum(Tail(b))) % 256

\* The length of the run of equal bytes b starts with.
RECURSIVE RunLength(_)
RunLength(b) ==
    IF Len(b) <= 1 THEN Len(b)
    ELSE IF b[2] = b[1] THEN 1 + RunLength(Tail(b)) ELSE 1

RECURSIVE Deflate(_)
Deflate(b) ==
    IF b = <<>> THEN <<>>
    ELSE LET n == RunLength(b)
         IN <<n, b[1]>> \o Deflate(SubSeq(b, n + 1, Len(b)))

\* Reading the runs of d from position k on, the run before having repeated
\* the byte prev (-1: none): the position of the closing zero count, or the
\* error of a stream that ends before it or of two neighbouring runs of one byte.
RECURSIVE ReadRuns(_, _, _)
ReadRuns(d, k, prev) ==
    IF k > Len(d) THEN [end |-> 0, error |-> "unexpected end of file"]
    ELSE IF d[k] = 0 THEN [end |-> k, error |-> ""]
    ELSE IF k + 1 > Len(d) THEN [end |-> 0, error |-> "unexpected end of file"]
    ELSE IF d[k + 1] = prev THEN [end |-> 0, error |-> "invalid stored block lengths"]
    ELSE ReadRuns(d, k + 2, d[k + 1])

RECURSIVE Inflate(_)
Inflate(z) ==
    IF z = <<>> THEN <<>>
    ELSE [i \in 1..z[1] |-> z[2]] \o Inflate(SubSeq(z, 3, Len(z)))

\* gzipSync(Buffer.from(bytes)), as the tests frame their payloads.
GzipSync(b) == GzipMagic \o Deflate(b) \o <<0>> \o <<ByteSum(b), Len(b) % 256>>

\* gunzipSync(Buffer.from(data)): the data, or the error zlib throws. Input
\* that ends before the stream is complete (the empty buffer too) is an
\* 'unexpected end of file'; other first bytes than the magic are an
\* 'incorrect header check'; the trailer is checked sum first, length second.
\* Bytes after the trailer are padding when they start with a zero byte and
\* another member of the archive otherwise.
RECURSIVE GunzipSync(_)
GunzipSync(d) ==
    IF Len(d) < 2 THEN Threw("unexpected end of file")
    ELSE IF SubSeq(d, 1, 2) # GzipMagic THEN Threw("incorrect header check")
    ELSE LET read == ReadRuns(d, 3, -1)
         IN IF read.error # "" THEN Threw(read.error)
            ELSE IF read.end + 2 > Len(d) THEN Threw("unexpected end of file")
            ELSE LET plain == Inflate(SubSeq(d, 3, read.end - 1))
                     rest == SubSeq(d, read.end + 3, Len(d))
                 IN IF ByteSum(plain) # d[read.end + 1] THEN Threw("incorrect data check")
                    ELSE IF Len(plain) % 256 # d[read.end + 2]
                    THEN Threw("incorrect length check")
                    ELSE IF rest = <<>> \/ rest[1] = 0 THEN Returned(plain)
                    ELSE LET more == GunzipSync(rest)
                         IN IF more.kind = "threw" THEN more
                            ELSE Returned(plain \o more.value)

\* fetch.ts: the first 12 bytes of the input are cut off, the rest is inflated.
DecompressPagefindStripFirst(data) ==
    IF Len(data) < PAGEFIND_HEADER_SIZE THEN Threw("shorter than header")
    ELSE GunzipSync(SubSeq(data, PAGEFIND_HEADER_SIZE + 1, Len(data)))

\* snapshot.ts: the input is inflated, its first 12 bytes are cut off; an
\* inflated buffer of fewer than 12 bytes is an error.
DecompressPagefind(data) ==
    LET decompressed == GunzipSync(data)
    IN IF decompressed.kind = "threw" THEN decompressed
       ELSE IF Len(decompressed.value) < PAGEFIND_HEADER_SIZE THEN Threw("shorter than header")
       ELSE Returned(SubSeq(decompressed.value, PAGEFIND_HEADER_SIZE + 1, Len(decompressed.value)))

\* The buffers of the tests: a framed payload (makePagefindBuffer), the
\* compressed form of data shorter than a header, eight zero bytes, a frame
\* that was never compressed, and a compressed frame that lost its last byte;
\* with them the empty buffer, the magic alone, and a compressed frame whose
\* last byte (the length) is off by one.
ShortData == SeqsUpTo(PayloadBytes, 2) \cup {SubSeq(PagefindMagic, 1, PAGEFIND_HEADER_SIZE - 1)}
Framed == {GzipSync(h \o p) : h \in Headers, p \in Payloads}
PagefindInputs ==
    Framed \cup {GzipSync(s) : s \in ShortData}
        \cup {[i \in 1..8 |-> 0]}
        \cup {PagefindMagic \o p : p \in {<<>>, <<120>>}}
        \cup {SubSeq(GzipSync(PagefindMagic \o p), 1, Len(GzipSync(PagefindMagic \o p)) - 1) :
                 p \in {<<>>, <<120, 120>>}}
        \cup {<<>>, GzipMagic}
        \cup {[GzipSync(PagefindMagic) EXCEPT ![Len(GzipSync(PagefindMagic))] = @ + 1]}

FrameInit == pfData \in PagefindInputs /\ pfOut = NotCalled

\* decompressPagefind(data) returns.
DecompressReturns ==
    /\ pfOut = NotCalled
    /\ DecompressPagefind(pfData).kind = "returned"
    /\ pfOut' = DecompressPagefind(pfData)
    /\ UNCHANGED <<pfData, coreVars, mcpVars, urlVars, storeVars, pluginVars, listVars, configVars>>

\* decompressPagefind(data) throws.
DecompressThrows ==
    /\ pfOut = NotCalled
    /\ DecompressPagefind(pfData).kind = "threw"
    /\ pfOut' = DecompressPagefind(pfData)
    /\ UNCHANGED <<pfData, coreVars, mcpVars, urlVars, storeVars, pluginVars, listVars, configVars>>

FrameNext == DecompressReturns \/ DecompressThrows

(***************************************************************************)
(* The inputs of normalizeSnapshotUrls (defined with ensureDocsParquet,    *)
(* which calls it) as UrlsSpec draws them.                                 *)
(***************************************************************************)
MaxEnvLen == 3

\* The values of the two environment variables and of options.snapshotUrls.
EnvManyValues == {Undefined} \cup {Defined(str) : str \in SeqsUpTo(EnvChars, MaxEnvLen)}
EnvSingleValues ==
    {Undefined, Defined(<<>>), Defined(<<" ">>), Defined(<<"u">>), Defined(<<" ", "d", " ">>),
     Defined(<<"v">>)}
CustomUrlValues ==
    {Undefined, Defined(<<>>), Defined(<< <<"u">> >>),
     Defined(<< <<"u">>, <<"d">>, <<"u">> >>),
     Defined(<< <<" ", "u">>, <<"u">>, <<"v">>, <<" ", "u">> >>)}

UrlsInit ==
    /\ customUrls \in CustomUrlValues
    /\ envSingleRaw \in EnvSingleValues
    /\ envManyRaw \in EnvManyValues
    /\ urlsOut = NotCalled

\* normalizeSnapshotUrls(options.snapshotUrls) returns.
NormalizeUrls ==
    /\ urlsOut = NotCalled
    /\ urlsOut' = Returned(NormalizeSnapshotUrls(customUrls, envSingleRaw, envManyRaw))
    /\ UNCHANGED <<customUrls, envSingleRaw, envManyRaw, coreVars, mcpVars, frameVars, storeVars, pluginVars,
                   listVars, configVars>>

UrlsNext == NormalizeUrls

(***************************************************************************)
(* The SQLite store: src/src/docs/db.ts 27-96, filled by fetchAllDocs of   *)
(* src/src/docs/fetch.ts 230-238.                                          *)
(***************************************************************************)
MaxInserts == 3
MaxBatch == 2

\* meta objects, as lists of (key, value) in key order.
Metas == { <<>>, << <<"title", "A">> >>, << <<"title", "B">>, <<"lang", "en">> >> }

\* JSON.stringify(meta): the text, token by token.
RECURSIVE JsonMembers(_)
JsonMembers(obj) ==
    IF obj = <<>> THEN <<>>
    ELSE <<"\"", obj[1][1], "\"", ":", "\"", obj[1][2], "\"">>
             \o (IF Len(obj) > 1 THEN <<",">> ELSE <<>>) \o JsonMembers(Tail(obj))
JsonStringify(obj) == <<"{">> \o JsonMembers(obj) \o <<"}">>

\* JSON.parse(text) of such a text.
RECURSIVE ParseMembers(_)
ParseMembers(text) ==
    IF Len(text) < 7 THEN <<>>
    ELSE << <<text[2], text[6]>> >>
             \o ParseMembers(SubSeq(text, IF Len(text) > 7 /\ text[8] = "," THEN 9 ELSE 8, Len(text)))
JsonParse(text) == ParseMembers(SubSeq(text, 2, Len(text) - 1))

PageUrls == {"/foundry/a/", "/foundry/b/"}

\* The records a page may be inserted with: two that differ in every field,
\* and one that shares some fields with each.
PageVersions ==
    { [title |-> "T1", content |-> "c1", wordCount |-> 1, meta |-> <<>>, fetchedAt |-> "d1"],
      [title |-> "T2", content |-> "c2", wordCount |-> 2,
       meta |-> << <<"title", "B">>, <<"lang", "en">> >>, fetchedAt |-> "d2"],
      [title |-> "T2", content |-> "c1", wordCount |-> 1,
       meta |-> << <<"title", "A">> >>, fetchedAt |-> "d2"] }
PageRecords ==
    { [url |-> u, title |-> v.title, content |-> v.content, wordCount |-> v.wordCount,
       meta |-> v.meta, fetchedAt |-> v.fetchedAt] : u \in PageUrls, v \in PageVersions }

\* The parameters of the statement: $meta is the JSON text.
RowOf(id, page) ==
    [id |-> id, url |-> page.url, title |-> page.title, content |-> page.content,
     word_count |-> page.wordCount, meta |-> JsonStringify(page.meta),
     fetched_at |-> page.fetchedAt]

\* INTEGER PRIMARY KEY: one more than the largest rowid.
NextRowId(table) ==
    IF table = <<>> THEN 1
    ELSE 1 + (CHOOSE m \in {table[k].id : k \in 1..Len(table)} :
                  \A k \in 1..Len(table) : table[k].id <= m)

\* INSERT OR IGNORE: a row that exists stays as it is.
UpsertKeepsFirst(table, page) ==
    IF \E k \in 1..Len(table) : table[k].url = page.url THEN table
    ELSE Append(table, RowOf(NextRowId(table), page))

\* UPSERT_PAGE: INSERT ... ON CONFLICT(url) DO UPDATE SET title, content,
\* word_count, meta, fetched_at = excluded.*; url is UNIQUE.
Upsert(table, page) ==
    IF \E k \in 1..Len(table) : table[k].url = page.url
    THEN [k \in 1..Len(table) |->
             IF table[k].url = page.url THEN RowOf(table[k].id, page) ELSE table[k]]
    ELSE Append(table, RowOf(NextRowId(table), page))

\* db.transaction: for (const page of batch) insertPage(db, page)
RECURSIVE UpsertAll(_, _)
UpsertAll(table, batch) ==
    IF batch = <<>> THEN table ELSE UpsertAll(Upsert(table, batch[1]), Tail(batch))

\* getPage(db, url): SELECT * FROM pages WHERE url = ?, null for no row.
NoPage == [url |-> ""]
GetPage(table, url) ==
    IF \E k \in 1..Len(table) : table[k].url = url
    THEN LET row == table[CHOOSE k \in 1..Len(table) : table[k].url = url]
         IN [url |-> row.url, title |-> row.title, content |-> row.content,
             wordCount |-> row.word_count, meta |-> JsonParse(row.meta),
             fetchedAt |-> row.fetched_at]
    ELSE NoPage

\* createDatabase(path) on a new file.
StoreInit == pagesTable = <<>> /\ inserted = <<>>

\* insertPage(db, page)
InsertPage(page) ==
    /\ Len(inserted) < MaxInserts
    /\ pagesTable' = Upsert(pagesTable, page)
    /\ inserted' = Append(inserted, page)
    /\ UNCHANGED <<coreVars, mcpVars, frameVars, urlVars, pluginVars, listVars, configVars>>

\* insertPages(db, pages): one transaction over a batch.
InsertPages(batch) ==
    /\ Len(inserted) + Len(batch) <= MaxInserts
    /\ pagesTable' = UpsertAll(pagesTable, batch)
    /\ inserted' = inserted \o batch
    /\ UNCHANGED <<coreVars, mcpVars, frameVars, urlVars, pluginVars, listVars, configVars>>

StoreNext ==
    \/ \E page \in PageRecords : InsertPage(page)
    \/ \E n \in 1..MaxBatch : \E batch \in [1..n -> PageRecords] : InsertPages(batch)

(***************************************************************************)
(* The plugin instance: src/src/index.ts 223, 329-337 (getDb, dbExists),   *)
(* the execute functions of its tools 486-676 and the refresh-docs command *)
(* 681-694, over the docs file as fetchAllDocs writes it. index.ts holds   *)
(* a ParquetStore that an awaited createDatabase returns; the db.ts of     *)
(* src/src/docs is a bun:sqlite connection, the ParquetStore is the one    *)
(* src/src/docs/__tests__/db.test.ts 22-43 describes: createDatabase loads *)
(* the file (store.file is an ArrayBuffer) and builds the index from it.   *)
(* The plugin code is the same over both, and both are modelled.           *)
(***************************************************************************)
MaxToolCalls == 3
MaxRefreshes == 1
MaxReads == 2

NoStore == 0

\* The texts a tool call returns; "rejected" stands for a call that threw.
NO_DB_MESSAGE == "Documentation database not found."
INVALID_ARGS == "[ERROR]"

Tools == {"get_doc_page", "list_all_docs"}
ToolCalls == 1..Len(toolCalls)

\* The store createDatabase returns: the connection of docs/db.ts, or the
\* ParquetStore that holds the file as createDatabase loaded it.
StoreKinds == {"connection", "loaded"}

\* getPage(store, url) / getAllPages(store) of the ParquetStore: answered from
\* store.file and store.index, the bytes and the index createDatabase loaded.
ReadAtOpen(db) == openedAt[db]

\* getPage(db, url) / getAllPages(db): a query on the connection, answered
\* from the rows the file holds at the time of the query.
ReadThrough(db) == fileVersion

\* What a query on store db is answered from.
StoreRead(db) == IF storeKind = "loaded" THEN ReadAtOpen(db) ELSE ReadThrough(db)

\* How a call ends whose last query goes to store db: with its text; a query
\* on a connection that was closed throws; what a ParquetStore answers after
\* closeDatabase is not in src/, it may answer or throw.
ReadOutcomes(db) ==
    IF db \in openStores THEN {"text"}
    ELSE IF storeKind = "loaded" THEN {"text", "rejected"}
    ELSE {"rejected"}

\* const plugin = async (input) => { let dbInstance = null; ... }: the docs
\* file is there or not.
PluginInit ==
    /\ dbInstance = NoStore /\ dbFile \in BOOLEAN /\ toolCalls = <<>> /\ createCalls = 0
    /\ openStores = {} /\ storesMade = 0 /\ refreshPc = "idle" /\ refreshes = 0
    /\ fileVersion = 0 /\ openedAt = <<>> /\ refreshedTo = 0
    /\ storeKind \in StoreKinds

\* execute(args) of get_doc_page or list_all_docs is called and runs to
\* await dbExists(). valid: the arguments pass the checks that follow
\* (parseScope, url or query given; scope, limit, offset, query length).
ToolCall(tool, valid) ==
    /\ Len(toolCalls) < MaxToolCalls
    /\ toolCalls' = Append(toolCalls, [tool |-> tool, valid |-> valid, pc |-> "exists",
                                       db |-> NoStore, saw |-> <<>>, out |-> "",
                                       began |-> refreshedTo])
    /\ UNCHANGED <<dbInstance, dbFile, createCalls, openStores, storesMade, refreshPc, refreshes,
                   fileVersion, openedAt, refreshedTo, storeKind>>
    /\ UNCHANGED <<coreVars, mcpVars, frameVars, urlVars, storeVars, listVars, configVars>>

\* await dbExists() returns: without the file the call returns NO_DB_MESSAGE;
\* arguments that fail a check return the error text, the store untouched;
\* otherwise getDb() runs to its first await: with dbInstance null it calls
\* createDatabase(dbPath), which opens the file at once (ok) or throws, and
\* awaits what it returns; with dbInstance set it returns the cached store.
DbExistsDone(c, ok) ==
    /\ toolCalls[c].pc = "exists"
    /\ ok \/ (dbFile /\ toolCalls[c].valid /\ dbInstance = NoStore)
    /\ IF ~dbFile
       THEN /\ toolCalls' = [toolCalls EXCEPT ![c] = [@ EXCEPT !.pc = "returned", !.out = NO_DB_MESSAGE]]
            /\ UNCHANGED <<createCalls, openStores, storesMade, openedAt>>
       ELSE IF ~toolCalls[c].valid
       THEN /\ toolCalls' = [toolCalls EXCEPT ![c] = [@ EXCEPT !.pc = "returned", !.out = INVALID_ARGS]]
            /\ UNCHANGED <<createCalls, openStores, storesMade, openedAt>>
       ELSE IF dbInstance # NoStore
       THEN /\ toolCalls' = [toolCalls EXCEPT ![c] = [@ EXCEPT !.pc = "reading", !.db = dbInstance]]
            /\ UNCHANGED <<createCalls, openStores, storesMade, openedAt>>
       ELSE IF ~ok
       THEN /\ toolCalls' = [toolCalls EXCEPT ![c] = [@ EXCEPT !.pc = "returned", !.out = "rejected"]]
            /\ createCalls' = createCalls + 1
            /\ UNCHANGED <<openStores, storesMade, openedAt>>
       ELSE /\ createCalls' = createCalls + 1
            /\ storesMade' = storesMade + 1
            /\ openStores' = openStores \cup {storesMade'}
            /\ openedAt' = Append(openedAt, fileVersion)
            /\ toolCalls' = [toolCalls EXCEPT ![c] = [@ EXCEPT !.pc = "opening", !.db = storesMade']]
    /\ UNCHANGED <<dbInstance, dbFile, refreshPc, refreshes, fileVersion, refreshedTo, storeKind>>
    /\ UNCHANGED <<coreVars, mcpVars, frameVars, urlVars, storeVars, listVars, configVars>>

\* The await in getDb is over: dbInstance = <the store createDatabase
\* returned>; return dbInstance.
CreateDatabaseDone(c) ==
    /\ toolCalls[c].pc = "opening"
    /\ dbInstance' = toolCalls[c].db
    /\ toolCalls' = [toolCalls EXCEPT ![c] = [@ EXCEPT !.pc = "reading"]]
    /\ UNCHANGED <<dbFile, createCalls, openStores, storesMade, refreshPc, refreshes,
                   fileVersion, openedAt, refreshedTo, storeKind>>
    /\ UNCHANGED <<coreVars, mcpVars, frameVars, urlVars, storeVars, listVars, configVars>>

\* get_doc_page: getPage(db, candidate) finds no page and is awaited; the
\* loop goes on with the next candidate.
GetPageMisses(c) ==
    /\ toolCalls[c].pc = "reading" /\ toolCalls[c].tool = "get_doc_page"
    /\ "text" \in ReadOutcomes(toolCalls[c].db)
    /\ Len(toolCalls[c].saw) + 1 < MaxReads
    /\ toolCalls' = [toolCalls EXCEPT ![c] =
           [@ EXCEPT !.saw = Append(@, StoreRead(toolCalls[c].db))]]
    /\ UNCHANGED <<dbInstance, dbFile, createCalls, openStores, storesMade, refreshPc, refreshes,
                   fileVersion, openedAt, refreshedTo, storeKind>>
    /\ UNCHANGED <<coreVars, mcpVars, frameVars, urlVars, storeVars, listVars, configVars>>

\* The call's last query (getPage / getAllPages) and the return of its text;
\* a query that throws rejects the call.
ToolReturns(c) ==
    /\ toolCalls[c].pc = "reading"
    /\ \E out \in ReadOutcomes(toolCalls[c].db) :
          toolCalls' = [toolCalls EXCEPT ![c] =
              IF out = "text"
              THEN [@ EXCEPT !.pc = "returned", !.out = "text",
                             !.saw = Append(@, StoreRead(toolCalls[c].db))]
              ELSE [@ EXCEPT !.pc = "returned", !.out = "rejected"]]
    /\ UNCHANGED <<dbInstance, dbFile, createCalls, openStores, storesMade, refreshPc, refreshes,
                   fileVersion, openedAt, refreshedTo, storeKind>>
    /\ UNCHANGED <<coreVars, mcpVars, frameVars, urlVars, storeVars, listVars, configVars>>

\* 'command.execute.before' with command refresh-docs: await fetchAllDocs(dbPath).
RefreshStarts ==
    /\ refreshPc = "idle" /\ refreshes < MaxRefreshes
    /\ refreshPc' = "fetching"
    /\ refreshes' = refreshes + 1
    /\ UNCHANGED <<dbInstance, dbFile, toolCalls, createCalls, openStores, storesMade,
                   fileVersion, openedAt, refreshedTo, storeKind>>
    /\ UNCHANGED <<coreVars, mcpVars, frameVars, urlVars, storeVars, listVars, configVars>>

\* fetchAllDocs after its last await: createDatabase(dbPath), which creates
\* the file if it is missing, insertPages for every batch of fetchedRecords,
\* closeDatabase of its own connection, return. rows: a fragment was fetched.
\* Without one (no page hash in pf_meta, or every fragment failed: failures
\* are collected in failedUrls, not thrown) the loop does not run, the rows
\* of the file stay as they were, and fetchAllDocs returns all the same.
RefreshWrites(rows) ==
    /\ refreshPc = "fetching"
    /\ refreshPc' = "written"
    /\ dbFile' = TRUE
    /\ fileVersion' = IF rows THEN fileVersion + 1 ELSE fileVersion
    /\ UNCHANGED <<dbInstance, toolCalls, createCalls, openStores, storesMade, refreshes,
                   openedAt, refreshedTo, storeKind>>
    /\ UNCHANGED <<coreVars, mcpVars, frameVars, urlVars, storeVars, listVars, configVars>>

\* The handler goes on after await fetchAllDocs: the cached store, if any, is
\* closed and forgotten.
RefreshDone ==
    /\ refreshPc = "written"
    /\ refreshPc' = "idle"
    /\ dbInstance' = NoStore
    /\ openStores' = openStores \ {dbInstance}
    /\ createCalls' = 0
    /\ refreshedTo' = fileVersion
    /\ UNCHANGED <<dbFile, toolCalls, storesMade, refreshes, fileVersion, openedAt, storeKind>>
    /\ UNCHANGED <<coreVars, mcpVars, frameVars, urlVars, storeVars, listVars, configVars>>

\* fetchAllDocs rejects and the handler with it, before it touches dbInstance:
\* while fetching (nothing written), at the first insertPages (createDatabase
\* has created the file), or at a later one (the batches before it are
\* committed).
RefreshFails(wrote) ==
    /\ refreshPc = "fetching"
    /\ refreshPc' = "idle"
    /\ dbFile' = (dbFile \/ wrote # "nothing")
    /\ fileVersion' = IF wrote = "batches" THEN fileVersion + 1 ELSE fileVersion
    /\ UNCHANGED <<dbInstance, toolCalls, createCalls, openStores, storesMade, refreshes,
                   openedAt, refreshedTo, storeKind>>
    /\ UNCHANGED <<coreVars, mcpVars, frameVars, urlVars, storeVars, listVars, configVars>>

PluginNext ==
    \/ \E tool \in Tools, valid \in BOOLEAN : ToolCall(tool, valid)
    \/ \E c \in ToolCalls, ok \in BOOLEAN : DbExistsDone(c, ok)
    \/ \E c \in ToolCalls : CreateDatabaseDone(c)
    \/ \E c \in ToolCalls : GetPageMisses(c)
    \/ \E c \in ToolCalls : ToolReturns(c)
    \/ RefreshStarts
    \/ \E rows \in BOOLEAN : RefreshWrites(rows)
    \/ RefreshDone
    \/ \E wrote \in {"nothing", "created", "batches"} : RefreshFails(wrote)

(***************************************************************************)
(* list_all_docs: src/src/index.ts 563-676 with toPathname 344-366,        *)
(* parseScope 396-407, isInScope 409-413, tokenizeQuery 415-423 and        *)
(* scorePageMatch 425-455. A string is the sequence of its characters.     *)
(***************************************************************************)
MaxRows == 3

\* The characters of the texts of the model.
Text(s) ==
    CASE s = "/apollo/zzz/" -> <<"/", "a", "p", "o", "l", "l", "o", "/", "z", "z", "z", "/">>
      [] s = "/gotham/aaa/" -> <<"/", "g", "o", "t", "h", "a", "m", "/", "a", "a", "a", "/">>
      [] s = "/foundry/aaa/" -> <<"/", "f", "o", "u", "n", "d", "r", "y", "/", "a", "a", "a", "/">>
      [] s = "/docs/foundry/many/" -> <<"/", "d", "o", "c", "s", "/", "f", "o", "u", "n", "d", "r", "y", "/", "m", "a", "n", "y", "/">>
      [] s = "Apollo ZZZ" -> <<"A", "p", "o", "l", "l", "o", " ", "Z", "Z", "Z">>
      [] s = "Gotham AAA" -> <<"G", "o", "t", "h", "a", "m", " ", "A", "A", "A">>
      [] s = "Foundry AAA" -> <<"F", "o", "u", "n", "d", "r", "y", " ", "A", "A", "A">>
      [] s = "Foundry Many" -> <<"F", "o", "u", "n", "d", "r", "y", " ", "M", "a", "n", "y">>
      [] s = "foundry" -> <<"f", "o", "u", "n", "d", "r", "y">>
      [] s = "apollo" -> <<"a", "p", "o", "l", "l", "o">>
      [] s = "gotham" -> <<"g", "o", "t", "h", "a", "m">>
      [] s = "docs" -> <<"d", "o", "c", "s">>
      [] s = "/" -> <<"/">>
      [] s = " " -> <<" ">>
      [] s = "aaa" -> <<"a", "a", "a">>
      [] s = "ZZZ" -> <<"Z", "Z", "Z">>
      [] s = "gotham aaa" -> <<"g", "o", "t", "h", "a", "m", " ", "a", "a", "a">>
      [] s = "qqq" -> <<"q", "q", "q">>
      [] s = "https://www.palantir.com/gotham/../foundry/aaa/" -> <<"h", "t", "t", "p", "s", ":", "/", "/", "w", "w", "w", ".", "p", "a", "l", "a", "n", "t", "i", "r", ".", "c", "o", "m", "/", "g", "o", "t", "h", "a", "m", "/", ".", ".", "/", "f", "o", "u", "n", "d", "r", "y", "/", "a", "a", "a", "/">>
      [] s = "http://" -> <<"h", "t", "t", "p", ":", "/", "/">>

\* The characters in the order of the root collation: blank, punctuation,
\* digits, letters.
Collation ==
    <<" ", "_", "-", ":", "?", ".", "/", "#", "%", "0", "2", "a", "b", "c", "d", "e", "f", "g",
      "h", "i", "j", "k", "l", "m", "n", "o", "p", "q", "r", "s", "t", "u", "v", "w", "x", "y",
      "z">>
CharRank(ch) == CHOOSE k \in 1..Len(Collation) : Collation[k] = ch

\* a.localeCompare(b) < 0 on strings without capitals: the first differing
\* character decides, a proper prefix comes first.
RECURSIVE LocaleLess(_, _)
LocaleLess(a, b) ==
    IF b = <<>> THEN FALSE
    ELSE IF a = <<>> THEN TRUE
    ELSE IF a[1] # b[1] THEN CharRank(a[1]) < CharRank(b[1])
    ELSE LocaleLess(Tail(a), Tail(b))

\* String.prototype.toLowerCase
Lower(ch) ==
    CASE ch = "A" -> "a" [] ch = "F" -> "f" [] ch = "G" -> "g" [] ch = "M" -> "m"
      [] ch = "Z" -> "z" [] OTHER -> ch
ToLowerCase(str) == [i \in 1..Len(str) |-> Lower(str[i])]

\* String.prototype.startsWith / includes
StartsWith(str, prefix) ==
    Len(prefix) <= Len(str) /\ SubSeq(str, 1, Len(prefix)) = prefix
Includes(str, part) ==
    \E i \in 0..(Len(str) - Len(part)) : SubSeq(str, i + 1, i + Len(part)) = part

\* str.split(ch)[0]: what comes before the first ch.
RECURSIVE Before(_, _)
Before(str, ch) ==
    IF str = <<>> \/ str[1] = ch THEN <<>> ELSE <<str[1]>> \o Before(Tail(str), ch)

\* What follows the first ch of str, ch included; nothing without one.
RECURSIVE From(_, _)
From(str, ch) ==
    IF str = <<>> THEN <<>> ELSE IF str[1] = ch THEN str ELSE From(Tail(str), ch)

\* What comes before the first character of stops.
RECURSIVE Until(_, _)
Until(str, stops) ==
    IF str = <<>> \/ str[1] \in stops THEN <<>> ELSE <<str[1]>> \o Until(Tail(str), stops)

\* The URL parser passes over the slashes that follow the scheme of an http
\* or https URL, however many there are.
RECURSIVE SkipSlashes(_)
SkipSlashes(str) == IF str # <<>> /\ str[1] = "/" THEN SkipSlashes(Tail(str)) ELSE str

\* The segments between the slashes of a path, empty ones included.
RECURSIVE PathSegments(_, _, _)
PathSegments(str, piece, done) ==
    IF str = <<>> THEN Append(done, piece)
    ELSE IF str[1] = "/" THEN PathSegments(Tail(str), <<>>, Append(done, piece))
    ELSE PathSegments(Tail(str), Append(piece, str[1]), done)

\* A segment as the parser stores it: a blank is written %20.
RECURSIVE PercentEncode(_)
PercentEncode(segment) ==
    IF segment = <<>> THEN <<>>
    ELSE (IF segment[1] = " " THEN <<"%", "2", "0">> ELSE <<segment[1]>>)
             \o PercentEncode(Tail(segment))

\* The path without its last segment, the empty path as it is.
ShortenPath(path) == IF path = <<>> THEN path ELSE SubSeq(path, 1, Len(path) - 1)

\* The parser's path state for one segment: ".." takes the last segment
\* back, "." adds none, both leave an empty segment when they end the path.
AddSegment(path, segment, last) ==
    IF segment = <<".", ".">>
    THEN IF last THEN Append(ShortenPath(path), <<>>) ELSE ShortenPath(path)
    ELSE IF segment = <<".">>
    THEN IF last THEN Append(path, <<>>) ELSE path
    ELSE Append(path, PercentEncode(segment))

RECURSIVE NormalizePath(_, _)
NormalizePath(segments, path) ==
    IF segments = <<>> THEN path
    ELSE NormalizePath(Tail(segments), AddSegment(path, segments[1], Len(segments) = 1))

\* "/" before every segment.
RECURSIVE JoinPath(_)
JoinPath(path) ==
    IF path = <<>> THEN <<>> ELSE <<"/">> \o path[1] \o JoinPath(Tail(path))

\* The pathname of a path as the URL has it, leading slash included; no path
\* is "/".
PathOf(text) ==
    JoinPath(NormalizePath(PathSegments(IF text = <<>> THEN text ELSE Tail(text), <<>>, <<>>),
                           <<>>))

\* url.pathname for the text that follows the host: the path ends before ?
\* and #.
Pathname(afterHost) == PathOf(Until(afterHost, {"?", "#"}))

\* new URL(url) for an http or https URL of which afterScheme follows the
\* colon: whether it throws, and its pathname. The texts are written with
\* blanks, letters and _ - : ? . / #, and no label of a host begins xn--.
\* The host ends before / ? #; one that is empty or holds a blank is
\* refused, and so is a port, what follows a colon in it, that is no number.
UrlWithHost(rest, authority, hostname) ==
    [threw |-> \/ hostname = <<>>
               \/ Includes(hostname, <<" ">>)
               \/ Len(hostname) + 1 < Len(authority),
     pathname |-> Pathname(SubSeq(rest, Len(authority) + 1, Len(rest)))]
UrlWithAuthority(rest, authority) == UrlWithHost(rest, authority, Before(authority, ":"))
UrlAfterSlashes(rest) == UrlWithAuthority(rest, Until(rest, {"/", "?", "#"}))
NewURL(afterScheme) == UrlAfterSlashes(SkipSlashes(afterScheme))

\* The basic parsing of toPathname: a leading slash is added when missing.
BasicPathname(noQueryOrHash) ==
    IF StartsWith(noQueryOrHash, <<"/">>) THEN noQueryOrHash ELSE <<"/">> \o noQueryOrHash

\* try { return new URL(...).pathname } catch { fall through }
PathnameOrBasic(url, trimmed) ==
    IF ~url.threw THEN url.pathname ELSE BasicPathname(Before(Before(trimmed, "#"), "?"))

ToPathnameOfTrimmed(trimmed) ==
    IF Len(trimmed) = 0 THEN <<>>
    ELSE IF StartsWith(trimmed, <<"h", "t", "t", "p", ":", "/", "/">>)
    THEN PathnameOrBasic(NewURL(SubSeq(trimmed, 6, Len(trimmed))), trimmed)
    ELSE IF StartsWith(trimmed, <<"h", "t", "t", "p", "s", ":", "/", "/">>)
    THEN PathnameOrBasic(NewURL(SubSeq(trimmed, 7, Len(trimmed))), trimmed)
    ELSE IF StartsWith(trimmed, <<"w", "w", "w", ".">>)
    THEN PathnameOrBasic(NewURL(trimmed), trimmed)
    ELSE BasicPathname(Before(Before(trimmed, "#"), "?"))

\* toPathname(inputUrl): a URL that new URL refuses falls through to the
\* basic parsing.
ToPathname(inputUrl) == ToPathnameOfTrimmed(Trim(inputUrl))

\* toPathname(a.url).localeCompare(toPathname(b.url)) < 0
PathLess(u, v) == LocaleLess(ToPathname(u), ToPathname(v))

\* a.url.localeCompare(b.url) < 0
UrlLess(u, v) == LocaleLess(u, v)

\* The pages a store may hold: the URLs of the index are site paths.
ListablePages ==
    { [url |-> Text("/apollo/zzz/"), title |-> Text("Apollo ZZZ")],
      [url |-> Text("/gotham/aaa/"), title |-> Text("Gotham AAA")],
      [url |-> Text("/foundry/aaa/"), title |-> Text("Foundry AAA")],
      [url |-> Text("/docs/foundry/many/"), title |-> Text("Foundry Many")] }

\* The stores: up to MaxRows different pages in any order.
Stores ==
    {st \in UNION {[1..n -> ListablePages] : n \in 0..MaxRows} :
        \A j, k \in 1..Len(st) : j # k => st[j] # st[k]}

\* A number: twice its value when it is finite, so that 3 halves are there.
Whole(n) == [kind |-> "finite", twice |-> 2 * n]
Halves(h) == [kind |-> "finite", twice |-> h]
NaN == [kind |-> "NaN", twice |-> 0]
\* Number.isFinite / Number.isInteger, and the value of an integer
IsFinite(x) == x.kind = "finite"
IsInteger(x) == x.kind = "finite" /\ x.twice % 2 = 0
IntegerOf(x) == x.twice \div 2

\* A query of more than 200 characters.
LongQuery == [i \in 1..201 |-> "a"]

\* The args of a call: each of scope, limit, offset and query left out or given.
ScopeArgs == {Undefined} \cup {Defined(x) : x \in {"foundry", "apollo", "all", "bogus"}}
LimitArgs ==
    {Undefined} \cup {Defined(Whole(n)) : n \in {0, 1, 2, 200, 201}}
        \cup {Defined(Halves(3)), Defined(NaN)}
OffsetArgs ==
    {Undefined} \cup {Defined(Whole(n)) : n \in -1..(MaxRows - 1)} \cup {Defined(Halves(1))}
QueryArgs ==
    {Undefined, Defined(LongQuery)}
        \cup {Defined(Text(q)) : q \in {" ", "aaa", "ZZZ", "gotham aaa", "qqq",
                                         "http://", "https://www.palantir.com/gotham/../foundry/aaa/"}}
NoArgs == [scope |-> Undefined, limit |-> Undefined, offset |-> Undefined, query |-> Undefined]

\* parseScope(rawScope): "" for null.
ParseScope(rawScope) ==
    IF ~rawScope.set THEN "foundry"
    ELSE IF rawScope.value \in {"foundry", "apollo", "gotham", "all"} THEN rawScope.value
    ELSE ""

\* isInScope(pageUrl, scope)
IsInScope(pageUrl, scope) ==
    \/ scope = "all"
    \/ LET path == ToPathname(pageUrl)
       IN \/ StartsWith(path, Text("/") \o Text(scope) \o Text("/"))
          \/ StartsWith(path, Text("/") \o Text("docs") \o Text("/") \o Text(scope) \o Text("/"))

\* query.split(/[\s/._-]+/g) and the filter that drops the empty pieces.
RECURSIVE SplitQuery(_, _, _)
SplitQuery(str, piece, done) ==
    LET closed == IF piece = <<>> THEN done ELSE Append(done, piece)
    IN IF str = <<>> THEN closed
       ELSE IF str[1] \in {" ", "/", ".", "_", "-"} THEN SplitQuery(Tail(str), <<>>, closed)
       ELSE SplitQuery(Tail(str), Append(piece, str[1]), done)

\* tokenizeQuery(query)
TokenizeQuery(query) == UniqueInOrder(SplitQuery(Trim(ToLowerCase(query)), <<>>, <<>>), <<>>)

\* The sum over the tokens: 40 for one the title includes, 30 for one the path includes.
RECURSIVE TokenScore(_, _, _)
TokenScore(tokens, title, path) ==
    IF tokens = <<>> THEN 0
    ELSE (IF Includes(title, tokens[1]) THEN 40 ELSE 0)
             + (IF Includes(path, tokens[1]) THEN 30 ELSE 0)
             + TokenScore(Tail(tokens), title, path)

\* scorePageMatch(page, query)
ScorePageMatch(page, query) ==
    LET q == Trim(ToLowerCase(query))
        path == ToLowerCase(ToPathname(page.url))
        title == ToLowerCase(page.title)
        tokens == TokenizeQuery(q)
    IN IF Len(q) = 0 THEN 0
       ELSE IF path = q THEN 2000
       ELSE IF path = ToLowerCase(ToPathname(q)) THEN 2000
       ELSE IF Includes(path, q) THEN 1200
       ELSE IF Includes(title, q) THEN 1000
       ELSE IF tokens = <<>> THEN 0
       ELSE TokenScore(tokens, title, path)
                + (IF StartsWith(path, q) THEN 100 ELSE 0)
                + (IF StartsWith(title, q) THEN 100 ELSE 0)

\* pages.filter((p) => isInScope(p.url, scope))
RECURSIVE FilterInScope(_, _)
FilterInScope(pages, scope) ==
    IF pages = <<>> THEN <<>>
    ELSE (IF IsInScope(pages[1].url, scope) THEN <<pages[1]>> ELSE <<>>)
             \o FilterInScope(Tail(pages), scope)

\* .map((p) => ({ page: p, score: scorePageMatch(p, query) })).filter((r) => r.score > 0)
RECURSIVE ScoredMatches(_, _)
ScoredMatches(pages, query) ==
    IF pages = <<>> THEN <<>>
    ELSE LET score == ScorePageMatch(pages[1], query)
         IN (IF score > 0 THEN <<[page |-> pages[1], score |-> score]>> ELSE <<>>)
                \o ScoredMatches(Tail(pages), query)

\* (a, b) => b.score !== a.score ? b.score - a.score : <by path>, negative
RankedLess(a, b) ==
    IF b.score # a.score THEN b.score < a.score ELSE PathLess(a.page.url, b.page.url)

\* Array.prototype.sort is stable: an element goes behind those it is not
\* less than.
RECURSIVE InsertRanked(_, _)
InsertRanked(sorted, r) ==
    IF sorted = <<>> THEN <<r>>
    ELSE IF RankedLess(r, sorted[1]) THEN <<r>> \o sorted
    ELSE <<sorted[1]>> \o InsertRanked(Tail(sorted), r)

RECURSIVE SortRanked(_)
SortRanked(list) ==
    IF list = <<>> THEN <<>>
    ELSE InsertRanked(SortRanked(SubSeq(list, 1, Len(list) - 1)), list[Len(list)])

RECURSIVE InsertByPath(_, _)
InsertByPath(sorted, page) ==
    IF sorted = <<>> THEN <<page>>
    ELSE IF PathLess(page.url, sorted[1].url) THEN <<page>> \o sorted
    ELSE <<sorted[1]>> \o InsertByPath(Tail(sorted), page)

\* .sort((a, b) => toPathname(a.page.url).localeCompare(toPathname(b.page.url)))
RECURSIVE SortByPath(_)
SortByPath(pages) ==
    IF pages = <<>> THEN <<>>
    ELSE InsertByPath(SortByPath(SubSeq(pages, 1, Len(pages) - 1)), pages[Len(pages)])

\* What execute returns, as far as its text depends on the call. query is
\* what the header prints: the trimmed query, nothing for none. next is the
\* offset of the 'Next:' line, which names scope, offset and limit.
ListError(which) == [kind |-> "error", which |-> which]
ListBeyond(scope, query, total, offset, lim, safeOffset) ==
    [kind |-> "beyond", scope |-> scope, query |-> query, total |-> total, returned |-> 0,
     offset |-> offset, limit |-> lim, entries |-> <<>>, try |-> safeOffset, next |-> Undefined]
ListPage(scope, query, total, offset, lim, entries, next) ==
    [kind |-> "page", scope |-> scope, query |-> query, total |-> total,
     returned |-> Len(entries), offset |-> offset, limit |-> lim, entries |-> entries,
     try |-> 0, next |-> next]

\* execute(args) of list_all_docs, the docs file being there.
ListAllDocs(pages, args) ==
    LET scope == ParseScope(args.scope)
        rawLimit == IF args.limit.set THEN args.limit.value ELSE Whole(50)
        rawOffset == IF args.offset.set THEN args.offset.value ELSE Whole(0)
        query == IF args.query.set THEN Trim(args.query.value) ELSE <<>>
    IN IF scope = "" THEN ListError("scope")
       ELSE IF \/ ~IsFinite(rawLimit) \/ ~IsInteger(rawLimit)
               \/ IntegerOf(rawLimit) < 1 \/ IntegerOf(rawLimit) > 200
       THEN ListError("limit")
       ELSE IF ~IsFinite(rawOffset) \/ ~IsInteger(rawOffset) \/ IntegerOf(rawOffset) < 0
       THEN ListError("offset")
       ELSE IF Len(query) > 200 THEN ListError("query")
       ELSE LET lim == IntegerOf(rawLimit)
                offset == IntegerOf(rawOffset)
                scoped == FilterInScope(pages, scope)
                ranked == SortRanked(ScoredMatches(scoped, query))
                filtered == IF Len(query) > 0 THEN [k \in 1..Len(ranked) |-> ranked[k].page]
                            ELSE SortByPath(scoped)
                total == Len(filtered)
            IN IF offset >= total
               THEN ListBeyond(scope, query, total, offset, lim, Max(0, total - lim))
               ELSE LET page == SubSeq(filtered, offset + 1, Min(offset + lim, total))
                        nextOffset == offset + Len(page)
                    IN ListPage(scope, query, total, offset, lim, page,
                                IF nextOffset < total THEN Defined(nextOffset) ELSE Undefined)

ListInit ==
    /\ listPages \in Stores /\ listArgs = NoArgs /\ listFirst = NoArgs /\ listOut = NotCalled
    /\ walking = FALSE /\ walked = <<>>

\* execute(args) is called and returns.
CallListAllDocs(args) ==
    /\ listArgs' = args
    /\ listFirst' = args
    /\ listOut' = ListAllDocs(listPages, args)
    /\ walking' = (listOut'.kind \in {"page", "beyond"} /\ listOut'.offset = 0)
    /\ walked' = IF walking' THEN listOut'.entries ELSE <<>>
    /\ UNCHANGED listPages
    /\ UNCHANGED <<coreVars, mcpVars, frameVars, urlVars, storeVars, pluginVars, configVars>>

\* The caller does what the 'Next:' line says: a call with the scope, the
\* offset and the limit it names, and nothing else.
FollowNext ==
    /\ listOut # NotCalled /\ listOut.kind = "page" /\ listOut.next.set
    /\ listArgs' = [scope |-> Defined(listOut.scope), limit |-> Defined(Whole(listOut.limit)),
                    offset |-> Defined(Whole(listOut.next.value)), query |-> Undefined]
    /\ listOut' = ListAllDocs(listPages, listArgs')
    /\ walked' = IF walking THEN walked \o listOut'.entries ELSE walked
    /\ UNCHANGED <<listPages, listFirst, walking>>
    /\ UNCHANGED <<coreVars, mcpVars, frameVars, urlVars, storeVars, pluginVars, configVars>>

\* The first call of a caller, with args of its choice. (A call reads the
\* store and changes nothing: what later callers get is what a first caller
\* gets.)
FirstCall ==
    /\ listOut = NotCalled
    /\ \E sc \in ScopeArgs, lim \in LimitArgs, off \in OffsetArgs, q \in QueryArgs :
          CallListAllDocs([scope |-> sc, limit |-> lim, offset |-> off, query |-> q])

ListNext ==
    \/ FirstCall
    \/ FollowNext

(***************************************************************************)
(* The config hook: src/src/index.ts 229-327 and 458-463. A property of an *)
(* object is Undefined or Defined(value); the hidden, description and      *)
(* prompt of an agent are values with what typeof gives for them.          *)
(***************************************************************************)
MaxHookRuns == 2

\* A boolean, a string and a number as a property may hold them: what typeof
\* gives and the text of the value.
JsBoolean(b) == [typeof |-> "boolean", v |-> IF b THEN "true" ELSE "false"]
JsString(str) == [typeof |-> "string", v |-> str]
JsNumber(n) == [typeof |-> "number", v |-> ToString(n)]
\* typeof x === type, undefined being of neither type
TypeofIs(x, type) == x.set /\ x.value.typeof = type

CommandNames == {"refresh-docs", "setup-palantir-mcp", "rescan-palantir-mcp-tools"}
AgentNames == {"foundry-librarian", "foundry"}
ToolNames == {"get_doc_page", "list_all_docs"}

\* {} as a config, as an agent and as a tools object.
EmptyConfig == [command |-> Undefined, agent |-> Undefined]
EmptyAgent ==
    [mode |-> Undefined, hidden |-> Undefined, description |-> Undefined, prompt |-> Undefined,
     tools |-> Undefined]
EmptyTools == [t \in ToolNames |-> Undefined]

\* The definitions the hook writes.
DefaultCommand(name) ==
    [template |-> Defined(CASE name = "refresh-docs" -> "Refresh Palantir documentation database."
                            [] name = "setup-palantir-mcp" -> "Set up palantir-mcp for this repo."
                            [] OTHER -> "Re-scan palantir-mcp tools and patch tool gating."),
     description |-> Defined(CASE name = "refresh-docs" -> "Download Palantir docs and write data/docs.parquet (local)."
                               [] name = "setup-palantir-mcp" -> "Guided MCP setup for Foundry."
                               [] OTHER -> "Re-discovers the palantir-mcp tool list.")]
DefaultDescription(agentName) ==
    IF agentName = "foundry-librarian"
    THEN "Foundry exploration and context gathering (parallel-friendly)"
    ELSE "Foundry execution agent (uses only enabled palantir-mcp tools)"
DefaultPrompt(agentName) ==
    IF agentName = "foundry-librarian" THEN "You are the Foundry librarian."
    ELSE "You are the Foundry execution agent."

\* ensureCommandDefinitions(cfg)
EnsureCommandDefinitions(c) ==
    LET command == IF c.command.set THEN c.command.value ELSE [n \in CommandNames |-> Undefined]
    IN [c EXCEPT !.command =
           Defined([n \in CommandNames |->
                       IF ~command[n].set THEN Defined(DefaultCommand(n)) ELSE command[n]])]

\* Defaults that are written over what the user set.
EnsureAgentDefaultsOverwrites(agent, agentName) ==
    [mode |-> Defined("subagent"),
     hidden |-> Defined(JsBoolean(FALSE)),
     description |-> Defined(JsString(DefaultDescription(agentName))),
     prompt |-> Defined(JsString(DefaultPrompt(agentName))),
     tools |-> Defined([t \in ToolNames |-> Defined(agentName = "foundry-librarian")])]

\* ensureAgentDefaults(agent, agentName)
EnsureAgentDefaults(agent, agentName) ==
    LET tools == IF agent.tools.set THEN agent.tools.value ELSE EmptyTools
    IN [mode |-> IF agent.mode.set /\ agent.mode.value \in {"subagent", "primary", "all"}
                 THEN agent.mode ELSE Defined("subagent"),
        hidden |-> IF TypeofIs(agent.hidden, "boolean") THEN agent.hidden
                   ELSE Defined(JsBoolean(FALSE)),
        description |-> IF TypeofIs(agent.description, "string") THEN agent.description
                        ELSE Defined(JsString(DefaultDescription(agentName))),
        prompt |-> IF TypeofIs(agent.prompt, "string") THEN agent.prompt
                   ELSE Defined(JsString(DefaultPrompt(agentName))),
        tools |-> Defined([t \in ToolNames |->
                              IF tools[t].set THEN tools[t]
                              ELSE Defined(agentName = "foundry-librarian")])]

\* ensureAgentDefinitions(cfg)
EnsureAgentDefinitions(c) ==
    LET agent == IF c.agent.set THEN c.agent.value ELSE [n \in AgentNames |-> Undefined]
    IN [c EXCEPT !.agent =
           Defined([n \in AgentNames |->
                       Defined(EnsureAgentDefaults(
                                   IF agent[n].set THEN agent[n].value ELSE EmptyAgent, n))])]

\* What a user may have written for a command and for an agent.
GivenCommands ==
    { Undefined,
      Defined([template |-> Defined("CUSTOM_TEMPLATE"), description |-> Defined("CUSTOM_DESCRIPTION")]),
      Defined([template |-> Defined("CUSTOM_TEMPLATE"), description |-> Undefined]) }
GivenAgents ==
    { Undefined,
      Defined(EmptyAgent),
      Defined([EmptyAgent EXCEPT !.prompt = Defined(JsString("CUSTOM_PROMPT")),
                                 !.tools = Defined([EmptyTools EXCEPT !["get_doc_page"] = Defined(TRUE)])]),
      Defined([mode |-> Defined("primary"), hidden |-> Defined(JsBoolean(TRUE)),
               description |-> Defined(JsString("CUSTOM_DESCRIPTION")), prompt |-> Undefined,
               tools |-> Defined([EmptyTools EXCEPT !["list_all_docs"] = Defined(FALSE)])]),
      Defined([mode |-> Defined("bogus"), hidden |-> Undefined,
               description |-> Defined(JsString("")), prompt |-> Defined(JsString("")),
               tools |-> Defined([get_doc_page |-> Defined(FALSE), list_all_docs |-> Defined(TRUE)])]),
      Defined([EmptyAgent EXCEPT !.hidden = Defined(JsString("yes")),
                                 !.description = Defined(JsNumber(42)),
                                 !.prompt = Defined(JsString("CUSTOM_PROMPT"))]),
      Defined([EmptyAgent EXCEPT !.hidden = Defined(JsBoolean(FALSE)),
                                 !.prompt = Defined(JsBoolean(TRUE))]) }
GivenConfigs ==
    [command : {Undefined} \cup {Defined(m) : m \in [CommandNames -> GivenCommands]},
     agent : {Undefined} \cup {Defined(m) : m \in [AgentNames -> GivenAgents]}]

ConfigInit ==
    /\ cfg \in GivenConfigs /\ cfgGiven = cfg /\ cfgAfterFirst = EmptyConfig
    /\ hookRuns = 0 /\ foundryEnv \in BOOLEAN /\ autoBootstrapStarted = FALSE

\* config: async (cfg) => { ensureCommandDefinitions(cfg);
\* ensureAgentDefinitions(cfg); maybeStartAutoBootstrap() }
ConfigHook ==
    /\ hookRuns < MaxHookRuns
    /\ cfg' = EnsureAgentDefinitions(EnsureCommandDefinitions(cfg))
    /\ cfgAfterFirst' = IF hookRuns = 0 THEN cfg' ELSE cfgAfterFirst
    /\ hookRuns' = hookRuns + 1
    /\ autoBootstrapStarted' = (autoBootstrapStarted \/ foundryEnv)
    /\ UNCHANGED <<cfgGiven, foundryEnv>>
    /\ UNCHANGED <<coreVars, mcpVars, frameVars, urlVars, storeVars, pluginVars, listVars>>

ConfigNext == ConfigHook

(***************************************************************************)
(* Specifications.                                                         *)
(***************************************************************************)
\* No call of withConcurrencyLimit.
SchedIdle ==
    /\ variant = "snapshot" /\ tasks = 0 /\ limit = 1 /\ called = FALSE
    /\ running = 0 /\ index = 0 /\ completed = 0 /\ results = <<>>
    /\ taskState = <<>> /\ outcome = <<>> /\ startCount = <<>>
    /\ resolved = FALSE /\ maxConcurrent = 0

\* No call of ensureDocsParquet.
SnapIdle ==
    /\ inFlightByPath = [d \in DestPaths |-> NoAttempt]
    /\ attempts = <<>>
    /\ calls = <<>>
    /\ files = [f \in AllFiles |-> Absent]
    /\ clock = 0

\* No call of fetchWithRetry.
RetryIdle ==
    /\ attempt = 0 /\ retryPc = "idle" /\ fetchCalls = 0 /\ responses = <<>>
    /\ delays = <<>> /\ lastError = NoError /\ thrown = NoError

\* No call of fetchAllDocs.
DocsIdle ==
    /\ options = NoOptions /\ docPc = "idle" /\ docError = "none"
    /\ entryLangs = <<>> /\ metaHash = "" /\ pageHashes = <<>> /\ progressEvery = 0
    /\ chain = <<>> /\ fragOutcome = <<>> /\ processedPages = 0 /\ events = <<>>
    /\ fetchedRecords = <<>> /\ failedUrls = <<>> /\ writerCalls = <<>>
    /\ docResult = NoResult /\ eventsAtSettle = NotSettled

\* No call of decompressPagefind.
FrameIdle == pfData = <<>> /\ pfOut = NotCalled

\* No call of normalizeSnapshotUrls.
UrlsIdle ==
    /\ customUrls = Undefined /\ envSingleRaw = Undefined /\ envManyRaw = Undefined
    /\ urlsOut = NotCalled

CoreIdle == SchedIdle /\ SnapIdle /\ RetryIdle /\ DocsIdle

\* An empty table.
StoreIdle == pagesTable = <<>> /\ inserted = <<>>

\* A plugin instance nobody has called.
PluginIdle ==
    /\ dbInstance = NoStore /\ dbFile = FALSE /\ toolCalls = <<>> /\ createCalls = 0
    /\ openStores = {} /\ storesMade = 0 /\ refreshPc = "idle" /\ refreshes = 0
    /\ fileVersion = 0 /\ openedAt = <<>> /\ refreshedTo = 0
    /\ storeKind = "connection"

\* No call of list_all_docs.
ListIdle ==
    /\ listPages = <<>> /\ listArgs = NoArgs /\ listFirst = NoArgs /\ listOut = NotCalled
    /\ walking = FALSE /\ walked = <<>>

\* The config hook has not run.
ConfigIdle ==
    /\ cfg = EmptyConfig /\ cfgGiven = EmptyConfig /\ cfgAfterFirst = EmptyConfig
    /\ hookRuns = 0 /\ foundryEnv = FALSE /\ autoBootstrapStarted = FALSE

\* listPalantirMcpTools has not been called.
McpIdle ==
    /\ mcpPc = "idle" /\ nextId = 1 /\ pending = {} /\ stdoutQueue = <<>>
    /\ stdoutOpen = FALSE /\ stderrOpen = FALSE /\ stdoutPump = "ended"
    /\ stderrPump = "ended" /\ killed = FALSE /\ linesWritten = 0
    /\ mcpTrace = <<>> /\ mcpOut = NotCalled

AuxIdle ==
    FrameIdle /\ UrlsIdle /\ StoreIdle /\ PluginIdle /\ ListIdle /\ ConfigIdle /\ McpIdle

Next ==
    \/ Call
    \/ \E i \in TaskIds : TaskFulfils(i)
    \/ \E i \in TaskIds : TaskRejects(i)
    \/ \E i \in TaskIds : ThenCallback(i)
    \/ \E i \in TaskIds : CatchCallback(i)
    \/ \E i \in TaskIds : FinallyCallback(i)

\* withConcurrencyLimit alone.
Init == SchedInit /\ SnapIdle /\ RetryIdle /\ DocsIdle /\ AuxIdle
Spec == Init /\ [][Next]_vars

\* withConcurrencyLimit where things happen: the executor runs, every started
\* task settles at some time, and the callbacks queued on a settled promise run.
TaskSettles(i) == i \in TaskIds /\ (TaskFulfils(i) \/ TaskRejects(i))
ChainRuns(i) == i \in TaskIds /\ (ThenCallback(i) \/ CatchCallback(i) \/ FinallyCallback(i))
LiveSpec ==
    /\ Init /\ [][Next]_vars
    /\ WF_vars(Call)
    /\ \A i \in 1..MaxTasks : WF_vars(TaskSettles(i)) /\ WF_vars(ChainRuns(i))

\* ensureDocsParquet alone.
SnapSpecInit == SnapInit /\ SchedIdle /\ RetryIdle /\ DocsIdle /\ AuxIdle
SnapSpec == SnapSpecInit /\ [][SnapNext]_vars

\* fetchAllDocs with the scheduler it drives.
DocsSpecInit == DocsInit /\ SnapIdle /\ RetryIdle /\ AuxIdle
DocsSpec == DocsSpecInit /\ [][DocsNext]_vars

\* fetchWithRetry alone.
RetrySpecInit == RetryInit /\ SchedIdle /\ SnapIdle /\ DocsIdle /\ AuxIdle
RetrySpec == RetrySpecInit /\ [][RetryNext]_vars

(***************************************************************************)
(* Claims about withConcurrencyLimit, checked under Spec.                  *)
(***************************************************************************)
\* The outcome record the code stores for task i once its promise has settled.
OutcomeOf(i) == IF outcome[i] = "fulfilled" THEN Fulfilled(i) ELSE Rejected(i)

\* Every started task has run its whole promise chain.
Quiescent == called /\ \A i \in TaskIds : taskState[i] \in {"unstarted", "done"}

\* C1 as stated: never more than `limit` tasks are in flight, and whenever there
\* are more tasks than the limit more than one task runs concurrently.
C1_AsStated ==
    /\ InFlight <= limit
    /\ (called /\ tasks > limit) => maxConcurrent > 1

\* C1 amended: never more than `limit` tasks are in flight and the observed
\* maximum never exceeds the limit; with more tasks than the limit and a limit
\* of at least 2, more than one task runs concurrently.
C1_InFlightBounded ==
    /\ InFlight <= limit
    /\ maxConcurrent <= limit
    /\ (called /\ tasks > limit /\ limit >= 2) => maxConcurrent > 1

\* C1 witness: more tasks than slots, a slot was freed and refilled, and the
\* limit is reached again with the last task started.
C1_Witness ==
    /\ tasks > limit /\ limit >= 2
    /\ index = tasks
    /\ InFlight = limit
    /\ \E i \in TaskIds : taskState[i] = "done"

\* C2: in the variant that counts `completed`, the returned promise is resolved
\* only when every task has been started and its promise has settled.
C2_ResolvesAfterAllSettled ==
    (variant = "snapshot" /\ resolved) =>
        \A i \in TaskIds : taskState[i] \notin {"unstarted", "inflight"} /\ outcome[i] # "none"

\* C2 witness: a resolved run of the `completed` variant with several tasks, one
\* of which rejected.
C2_Witness ==
    /\ variant = "snapshot" /\ resolved /\ tasks >= 2
    /\ \E i \in TaskIds : outcome[i] = "rejected"
    /\ \E i \in TaskIds : outcome[i] = "fulfilled"

\* C3: every filled slot k of results holds the outcome of task k, and when the
\* `completed` variant resolves, results has one slot per task, all filled.
C3_ResultsIndexAligned ==
    /\ \A k \in 1..Len(results) :
           results[k] # Empty => (k \in TaskIds /\ outcome[k] # "none" /\ results[k] = OutcomeOf(k))
    /\ (variant = "snapshot" /\ resolved) =>
           (Len(results) = tasks /\ \A k \in TaskIds : results[k] = OutcomeOf(k))

\* C3 witness: a later task completed before an earlier one (slot 2 is filled
\* while slot 1 is still a hole and task 1 is in flight).
C3_Witness ==
    /\ variant = "snapshot" /\ tasks >= 2
    /\ taskState[1] = "inflight"
    /\ results[1] = Empty /\ results[2] # Empty

\* C4: no task is started twice, and once nothing is in progress every task of
\* the list has been started exactly once and its outcome recorded at its index,
\* whichever tasks rejected (both variants).
C4_FailuresNeverSkipSiblings ==
    /\ \A i \in TaskIds : startCount[i] <= 1
    /\ Quiescent =>
           \A i \in TaskIds :
               /\ startCount[i] = 1
               /\ i <= Len(results)
               /\ results[i] = OutcomeOf(i)

\* C4 witness: with one slot, the first task rejected and every later task was
\* still run to its end.
C4_Witness ==
    /\ Quiescent /\ limit = 1 /\ tasks >= 2
    /\ outcome[1] = "rejected"
    /\ \A i \in TaskIds : taskState[i] = "done"

\* C34 as stated: when the promise of the fetch.ts variant resolves, the
\* results array has one slot per task and every slot holds an outcome.
C34_AsStated ==
    (variant = "fetch" /\ resolved) =>
        /\ Len(results) = tasks
        /\ \A i \in 1..Len(results) : results[i] # Empty

\* The tasks started so far are the first `index` tasks of the list, and no
\* slot is idle while a task waits to be started.
StartedInOrder ==
    /\ \A i \in TaskIds : taskState[i] = "unstarted" <=> i > index
    /\ \A i \in TaskIds : startCount[i] = IF i <= index THEN 1 ELSE 0
    /\ (called /\ running < limit) => index = tasks
    /\ (called /\ tasks = 0) => resolved

\* Every task has run to its end.
AllDone == \A i \in TaskIds : taskState[i] = "done"

\* C35: when every started task settles, every task of the list is started
\* at some time, in index order and with no slot left idle while a task
\* waits, and the promise resolves at some time; for an empty list it
\* resolves in the call itself.
C35_Terminates == []StartedInOrder /\ <>[](resolved /\ AllDone)

\* C35 witness: the `completed` variant ran three tasks through two slots,
\* two of them at a time, and resolved with every task at its end.
C35_Witness ==
    /\ variant = "snapshot" /\ tasks = 3 /\ limit = 2
    /\ resolved /\ AllDone /\ maxConcurrent = 2 /\ index = 3

(***************************************************************************)
(* Claims about ensureDocsParquet, checked under SnapSpec.                 *)
(***************************************************************************)
\* The download candidates of attempt a: what line 216 computes, or would.
Candidates(a) == NormalizeSnapshotUrls(attempts[a].given, envSingleRaw, envManyRaw)

\* The attempts for dbPath whose ensureDocsParquetInternal has not returned or thrown.
InProgressFor(dbPath) ==
    {a \in Attempts : attempts[a].path = dbPath /\ attempts[a].pc \notin {"settled", "done"}}

\* The temp files that belong to destination d.
TempFilesOf(d) == {t \in AllFiles : t.dir = d.dir /\ t.base = d.base /\ t.stamp # 0}

\* C5: a call that arrives while an attempt for its resolved path is pending
\* returns that attempt's promise and starts none; an attempt fetches each of
\* its URLs at most once, so with one URL a download costs exactly one fetch;
\* and the calls that share an attempt see one and the same outcome.
C5_CallsShareInFlightAttempt ==
    /\ \A c \in Calls : calls[c].joined # {} => calls[c].joined = {calls[c].attempt}
    /\ \A a \in Attempts :
           attempts[a].pc # "done" =>
               /\ attempts[a].fetches <= Len(attempts[a].urls)
               /\ (attempts[a].out.source = "download" /\ Len(attempts[a].urls) = 1)
                      => attempts[a].fetches = 1
    /\ \A c1, c2 \in Calls :
           calls[c1].attempt = calls[c2].attempt =>
               /\ CallSettled(c1) = CallSettled(c2)
               /\ CallOutcome(c1) = CallOutcome(c2)

\* C5 witness: every call after the first arrived while the first one's
\* attempt was pending; they shared one attempt that downloaded with a single
\* fetch.
C5_Witness ==
    /\ Len(calls) = MaxCalls /\ Len(attempts) = 1
    /\ calls[1].joined = {} /\ \A c \in 2..MaxCalls : calls[c].joined = {1}
    /\ \A c \in Calls : CallSettled(c) /\ CallOutcome(c).source = "download"
    /\ attempts[1].fetches = 1

\* C6: from its first suspension until its finally callback an attempt is the
\* entry of its path; an entry never names an attempt whose promise has settled;
\* and a call that finds no pending attempt starts a new one.
C6_EntryLivesWithAttempt ==
    /\ \A a \in Attempts :
           attempts[a].pc # "done" => InFlightGet(inFlightByPath, attempts[a].path) = a
    /\ \A d \in DestPaths :
           inFlightByPath[d] # NoAttempt =>
               /\ inFlightByPath[d] \in Attempts
               /\ attempts[inFlightByPath[d]].pc # "done"
               /\ attempts[inFlightByPath[d]].path = d
    /\ \A c \in Calls :
           calls[c].joined = {} =>
               \A c2 \in Calls : c2 < c => calls[c2].attempt # calls[c].attempt

\* C6 witness: the first attempt rejected and its entry is gone; a later call
\* started a second attempt, which is the entry now.
C6_Witness ==
    /\ Len(attempts) = 2
    /\ attempts[1].pc = "done" /\ attempts[1].out.kind = "error"
    /\ attempts[2].pc = "fetch"
    /\ inFlightByPath[attempts[2].path] = 2
    /\ calls[Len(calls)].attempt = 2 /\ calls[Len(calls)].joined = {}

\* C7: per resolved destination path at most one execution of
\* ensureDocsParquetInternal is in progress, and at most one promise is pending.
C7_AtMostOneWriter ==
    \A d \in DestPaths :
        /\ Cardinality(InProgressFor(d)) <= 1
        /\ Cardinality(PendingFor(d)) <= 1

\* C7 witness: a second attempt for the path is about to rename its temp file
\* over the destination that the first, finished attempt wrote.
C7_Witness ==
    /\ Len(attempts) = 2
    /\ attempts[1].pc = "done" /\ attempts[1].out.source = "download"
    /\ attempts[2].pc = "rename"
    /\ files[attempts[2].path].from = U1

\* A destination is missing or completely written.
DestComplete == \A d \in DestPaths : files[d].exists => files[d].complete

\* A step changes a destination only by moving a completely written temp file
\* of the same directory over it.
RenameOnly ==
    \A d \in DestPaths :
        files'[d] # files[d] =>
            \E t \in TempFilesOf(d) :
                /\ files[t].exists /\ files[t].complete
                /\ files'[d] = files[t]
                /\ files'[t] = Absent

\* C8: in every state the destination is absent or complete, and every step
\* that changes it is the rename of a complete temp file from its directory.
C8_AtomicReplace == []DestComplete /\ [][RenameOnly]_vars

\* C8 witness: a reader of the destination sees the complete old snapshot
\* while an attempt has written only part of its temp file.
C8_Witness ==
    \E a \in Attempts :
        /\ attempts[a].pc \in {"writing", "copying"}
        /\ files[attempts[a].path] = FileOf(256, <<"old">>, TRUE)
        /\ files[TempPathFor(attempts[a].path, attempts[a].tmp)].exists
        /\ ~files[TempPathFor(attempts[a].path, attempts[a].tmp)].complete

\* The destination of attempt a is a regular file of at least 64 bytes.
DestValid(a) ==
    /\ files[attempts[a].path].exists /\ files[attempts[a].path].isFile
    /\ files[attempts[a].path].size >= 64

\* An attempt that returned 'existing' reports no change and has fetched nothing.
ExistingMeansUntouched ==
    \A a \in Attempts :
        attempts[a].out.source = "existing" =>
            /\ attempts[a].out.changed = FALSE
            /\ attempts[a].fetches = 0
            /\ attempts[a].pc = "settled" =>
                   /\ DestValid(a)
                   /\ attempts[a].out.bytes = files[attempts[a].path].size

\* A step taken while an unforced attempt is at its entry check and the
\* destination is valid: the attempt waits, or returns 'existing' with the
\* file's size, or rejects because fs.stat threw; it fetches nothing, starts
\* no copy, and no file changes.
EntryCheckStep ==
    \A a \in Attempts :
        (attempts[a].pc \in {"mkdir", "stat"} /\ ~attempts[a].force /\ DestValid(a)) =>
            /\ files' = files
            /\ attempts'[a].fetches = 0
            /\ attempts'[a].pc \in {"mkdir", "stat", "settled"}
            /\ attempts'[a].pc = "settled" =>
                   \/ attempts'[a].out =
                          Result(attempts[a].path, "existing", FALSE,
                                 files[attempts[a].path].size, NoUrl)
                   \/ attempts'[a].out = Failure("stat", FALSE)

\* C19: an unforced call whose fs.stat finds the destination as a regular
\* file of at least 64 bytes returns source = 'existing', changed = false and
\* bytes = the file's size, without any fetch or bundled copy, and no step of
\* it changes a file.
C19_ExistingReturnedUntouched == []ExistingMeansUntouched /\ [][EntryCheckStep]_vars

\* C19 witness: an unforced call with a URL to download from found the valid
\* 256-byte snapshot and returned it; nothing was fetched, the file is as it was.
C19_Witness ==
    \E a \in Attempts :
        /\ attempts[a].pc = "settled" /\ ~attempts[a].force /\ Len(Candidates(a)) >= 1
        /\ attempts[a].out = Result(attempts[a].path, "existing", FALSE, 256, NoUrl)
        /\ attempts[a].fetches = 0
        /\ files[attempts[a].path] = FileOf(256, <<"old">>, TRUE)

\* C20 as stated: an attempt with a candidate URL that is past its entry check
\* (the directory was made) and was forced, or whose destination is missing or
\* smaller than 64 bytes, has fetched from the download chain.
C20_AsStated ==
    \A a \in Attempts :
        ( /\ attempts[a].pc \notin {"mkdir", "stat", "done"}
          /\ attempts[a].out.why \notin {"mkdir", "stat"}
          /\ Len(Candidates(a)) >= 1
          /\ attempts[a].force \/ ~DestValid(a) ) =>
            attempts[a].fetches >= 1

\* The download loop of attempt a as far as the state shows it: the URL at
\* position i is the only one being fetched or stored, every URL before it was
\* fetched once and pushed an error, and what is being stored is the payload of
\* urls[i], at least 64 bytes of it.
DownloadLoopInOrder(a) ==
    LET rec == attempts[a]
        tmp == TempPathFor(rec.path, rec.tmp)
    IN /\ rec.pc \in {"fetch", "body", "writing", "rename"} =>
              /\ rec.i \in 1..Len(rec.urls)
              /\ rec.fetches = rec.i
              /\ rec.errors = rec.i - 1
       /\ rec.pc \in {"writing", "rename"} => rec.size >= 64
       /\ ((rec.pc = "writing" /\ rec.opened) \/ rec.pc = "rename") =>
              /\ files[tmp].exists /\ files[tmp].from = rec.urls[rec.i]
              /\ files[tmp].size = rec.size

\* A resolved download of attempt a: the winner is the last URL fetched, its
\* payload of at least 64 bytes is the destination.
DownloadWinner(a) ==
    LET rec == attempts[a]
    IN (rec.pc = "settled" /\ rec.out.source = "download") =>
           /\ rec.fetches \in 1..Len(rec.urls)
           /\ rec.out = Result(rec.path, "download", TRUE, rec.out.bytes, rec.urls[rec.fetches])
           /\ rec.out.bytes >= 64
           /\ files[rec.path] = FileOf(rec.out.bytes, rec.out.downloadUrl, TRUE)

\* The positions of the events of attempt a of one type about url.
UrlEvents(a, type, url) ==
    {k \in 1..Len(attempts[a].ev) :
        attempts[a].ev[k].type = type /\ attempts[a].ev[k].url = url}

\* The URL did not deliver: the response was not OK, fetch or the read of the
\* body threw, or the body had fewer than 64 bytes.
NotDelivered(error) ==
    \/ error.why \in {"http", "fetch", "body"}
    \/ error.why = "small" /\ error.bytes < 64

\* The URL delivered and the local disk refused the payload: fs.writeFile or
\* fs.rename threw.
NotStored(error) == error.why \in {"write", "rename"}

\* The events of a resolved download up to the winner: every URL before it
\* was fetched exactly once and failed exactly once, the winner was fetched
\* once and succeeded, no URL after it was fetched.
FetchedOnceUpToWinner(a) ==
    LET rec == attempts[a]
    IN /\ \A n \in 1..rec.fetches : Cardinality(UrlEvents(a, "download-start", rec.urls[n])) = 1
       /\ \A n \in 1..(rec.fetches - 1) :
              /\ Cardinality(UrlEvents(a, "download-failed", rec.urls[n])) = 1
              /\ UrlEvents(a, "download-success", rec.urls[n]) = {}
       /\ UrlEvents(a, "download-failed", rec.urls[rec.fetches]) = {}
       /\ Cardinality(UrlEvents(a, "download-success", rec.urls[rec.fetches])) = 1
       /\ \A n \in (rec.fetches + 1)..Len(rec.urls) :
              UrlEvents(a, "download-start", rec.urls[n]) = {}

\* The reason the n-th URL of attempt a failed with.
FailureOf(a, n) ==
    attempts[a].ev[CHOOSE k \in UrlEvents(a, "download-failed", attempts[a].urls[n]) : TRUE].error

\* C21 as stated: the candidates are fetched one at a time in list order; a
\* resolved download names the last URL fetched, whose OK payload of at least
\* 64 bytes is the destination; every URL before it was fetched exactly once
\* and did not deliver (non-OK, transport error, too-small payload), so that
\* the winner is the first URL that answered OK with at least 64 bytes; no
\* URL after it was fetched.
C21_AsStated ==
    \A a \in Attempts :
        /\ DownloadLoopInOrder(a)
        /\ DownloadWinner(a)
        /\ (attempts[a].pc = "settled" /\ attempts[a].out.source = "download") =>
               /\ FetchedOnceUpToWinner(a)
               /\ \A n \in 1..(attempts[a].fetches - 1) : NotDelivered(FailureOf(a, n))

\* C21: the candidates are fetched one at a time in list order; a resolved
\* download names the last URL fetched, whose OK payload of at least 64 bytes
\* was written and renamed and is the destination; every URL before it was
\* fetched exactly once and failed, either because it did not deliver
\* (non-OK, transport error, a payload under 64 bytes) or because the local
\* write or rename of its payload threw; no URL after it was fetched; and an
\* attempt that left the loop without a winner has fetched every URL.
C21_FirstStoredUrlWins ==
    \A a \in Attempts :
        /\ DownloadLoopInOrder(a)
        /\ DownloadWinner(a)
        /\ (attempts[a].pc = "settled" /\ attempts[a].out.source = "download") =>
               /\ FetchedOnceUpToWinner(a)
               /\ \A n \in 1..(attempts[a].fetches - 1) :
                      NotDelivered(FailureOf(a, n)) \/ NotStored(FailureOf(a, n))
        /\ attempts[a].pc # "done" => attempts[a].fetches <= Len(attempts[a].urls)
        /\ ( /\ attempts[a].pc \in {"bstat", "copying", "crename", "settled"}
             /\ attempts[a].out.why \notin {"mkdir", "stat", "small-existing"}
             /\ attempts[a].out.source \notin {"existing", "download"} ) =>
               attempts[a].fetches = Len(attempts[a].urls)

\* C21 witness: of <<u1, u2>> the first answered 63 bytes and the second 64:
\* two fetches, the first reported as too small, the result names u2 and the
\* destination holds its payload.
C21_Witness ==
    \E a \in Attempts :
        /\ attempts[a].pc = "settled" /\ attempts[a].urls = <<U1, U2>>
        /\ attempts[a].fetches = 2
        /\ attempts[a].ev[3] = DownloadFailed(U1, TooSmall(63))
        /\ attempts[a].out = Result(attempts[a].path, "download", TRUE, 64, U2)
        /\ files[attempts[a].path] = FileOf(64, U2, TRUE)

\* The bundled file is a file of at least 64 bytes.
BundledValid ==
    files[BundledPath].exists /\ files[BundledPath].isFile /\ files[BundledPath].size >= 64

\* C22: the bundled stage is entered only when every candidate URL has been
\* fetched and has failed (none, for an empty list); a copy is started only
\* from a bundled file of at least 64 bytes; a bundled-copy result is
\* changed = true with the bundled file's size, the destination then being a
\* complete copy of it; and an attempt that ran out of sources rejected only
\* when the bundled file was missing or too small.
C22_BundledAfterDownloads ==
    \A a \in Attempts :
        LET rec == attempts[a]
        IN /\ rec.pc \in {"bstat", "copying", "crename"} =>
                  rec.fetches = Len(rec.urls) /\ rec.errors = Len(rec.urls)
           /\ rec.pc \in {"copying", "crename"} =>
                  BundledValid /\ rec.size = files[BundledPath].size
           /\ (rec.pc = "settled" /\ rec.out.source = "bundled-copy") =>
                  /\ rec.fetches = Len(rec.urls)
                  /\ BundledValid
                  /\ rec.out = Result(rec.path, "bundled-copy", TRUE, files[BundledPath].size, NoUrl)
                  /\ files[rec.path] = FileOf(files[BundledPath].size, <<"bundled">>, TRUE)
           /\ (rec.pc = "settled" /\ rec.out.why \in {"download", "none", "small-bundled"}) =>
                  rec.fetches = Len(rec.urls) /\ ~BundledValid

\* C22 witness: both URLs failed, the 512-byte bundled file was copied over a
\* missing or older destination and the call resolved with it.
C22_Witness ==
    \E a \in Attempts :
        /\ attempts[a].pc = "settled" /\ attempts[a].urls = <<U1, U2>>
        /\ attempts[a].fetches = 2
        /\ attempts[a].out = Result(attempts[a].path, "bundled-copy", TRUE, 512, NoUrl)
        /\ files[attempts[a].path] = FileOf(512, <<"bundled">>, TRUE)
        /\ files[BundledPath] = FileOf(512, <<"bundled">>, TRUE)

\* C23 as stated: an attempt that rejected because its sources ran out (every
\* URL failed, and the bundled file is missing or below 64 bytes) carries the
\* /refresh-docs-rescrape hint in its message.
C23_AsStated ==
    \A a \in Attempts :
        ( /\ attempts[a].pc = "settled" /\ attempts[a].out.kind = "error"
          /\ attempts[a].out.why \in {"download", "none", "small-bundled"}
          /\ attempts[a].fetches = Len(attempts[a].urls)
          /\ ~BundledValid ) =>
            attempts[a].out.hint

\* The call that started attempt a: the first one that returned its promise.
StarterOf(a) == CHOOSE c \in Calls : calls[c].attempt = a /\ \A d \in 1..(c - 1) : calls[d].attempt # a

\* Call c was given force = true: as the starter of a forced attempt, or as a
\* call that found a promise in flight and whose force went unread.
ForcedCall(c) ==
    IF StarterOf(calls[c].attempt) = c THEN attempts[calls[c].attempt].force
    ELSE calls[c].dropped

\* The attempt whose promise call c holds has fetched from a URL, and if it
\* resolved with a download the destination has the payload's size and the
\* result says changed.
FreshDownload(c) ==
    LET rec == attempts[calls[c].attempt]
    IN /\ rec.fetches >= 1
       /\ (rec.pc = "settled" /\ rec.out.source = "download") =>
              rec.out.changed /\ files[rec.path].size = rec.out.bytes

\* C24 as stated: every call given force = true and a candidate URL, whose
\* promise comes from an attempt past its entry (the directory exists), has a
\* fresh download behind it, also when it was issued while another call for the
\* path was in flight.
C24_AsStated ==
    \A c \in Calls :
        ( /\ ForcedCall(c)
          /\ attempts[calls[c].attempt].pc \in {"bstat", "copying", "crename", "settled"}
          /\ attempts[calls[c].attempt].out.why \notin {"mkdir", "stat"}
          /\ Len(Candidates(calls[c].attempt)) >= 1 ) =>
            FreshDownload(c)

\* C24 amended: every call given force = true that starts an attempt has a
\* fresh download behind it (at least one URL is fetched whatever the
\* destination holds; a download that succeeds is the destination, changed =
\* true); a call given force = true while another call for the path is in
\* flight holds that call's promise.
C24_ForcedStarterDownloads ==
    \A c \in Calls :
        LET a == calls[c].attempt
        IN /\ ( /\ StarterOf(a) = c /\ attempts[a].force
                /\ attempts[a].pc \in {"bstat", "copying", "crename", "settled"}
                /\ attempts[a].out.why # "mkdir"
                /\ Len(Candidates(a)) >= 1 ) =>
                  FreshDownload(c)
           /\ calls[c].dropped => StarterOf(a) < c /\ a \in calls[c].joined

\* C24 witness: the first call found the valid 256-byte snapshot and returned
\* it; a later forced call fetched 64 bytes from u1 and replaced it.
C24_Witness ==
    /\ Len(attempts) = 2 /\ Len(calls) = 2
    /\ attempts[1].pc = "done" /\ attempts[1].out = Result(attempts[1].path, "existing", FALSE, 256, NoUrl)
    /\ attempts[2].pc = "settled" /\ attempts[2].force
    /\ attempts[2].out = Result(attempts[2].path, "download", TRUE, 64, U1)
    /\ files[attempts[2].path] = FileOf(64, U1, TRUE)

\* The positions of the events of attempt a that close the download of url.
DownloadEnds(a, url) ==
    {j \in 1..Len(attempts[a].ev) :
        /\ attempts[a].ev[j].type \in {"download-failed", "download-success"}
        /\ attempts[a].ev[j].url = url}

\* The positions of the events of attempt a of one type.
AttemptEventsOfType(a, type) ==
    {k \in 1..Len(attempts[a].ev) : attempts[a].ev[k].type = type}

\* The events of attempt a, whose onEvent is still reachable, are in the
\* fallback order.
FallbackOrder(a) ==
    LET rec == attempts[a]
        ev == rec.ev
    IN /\ AttemptEventsOfType(a, "start") = {1}
       /\ ev[1] = StartEvent(rec.force)
       /\ \A k \in AttemptEventsOfType(a, "download-start") :
              /\ IF k = Len(ev)
                 THEN rec.pc \in {"fetch", "body", "writing", "rename"} /\ DownloadEnds(a, ev[k].url) = {}
                 ELSE DownloadEnds(a, ev[k].url) = {k + 1}
              /\ \A j \in AttemptEventsOfType(a, "download-start") : ev[j].url = ev[k].url => j = k
       /\ \A k \in AttemptEventsOfType(a, "copy-start") :
              /\ \A n \in 1..Len(rec.urls) :
                     \E j \in 1..(k - 1) :
                         ev[j].type = "download-failed" /\ ev[j].url = rec.urls[n]
              /\ \A j \in AttemptEventsOfType(a, "download-start") : j < k
              /\ AttemptEventsOfType(a, "download-success") = {}
       /\ IF rec.pc = "settled" /\ rec.out.kind = "result"
          THEN AttemptEventsOfType(a, "done") = {Len(ev)} /\ ev[Len(ev)] = Done(rec.out)
          ELSE AttemptEventsOfType(a, "done") = {}

\* C33: the events of one attempt follow the fallback order: 'start' is the
\* first event; every 'download-start' for a URL is followed at once by the
\* one 'download-failed' or 'download-success' for that URL, or the download
\* is still under way; 'copy-start' comes only after a 'download-failed' for
\* every candidate URL; an attempt that resolved has 'done' as its last event,
\* carrying the result it returned, and no other attempt has a 'done'.
C33_EventsFollowFallbackOrder ==
    \A a \in Attempts : attempts[a].pc # "done" => FallbackOrder(a)

\* C33 witness: a forced attempt reported start, the failure of u1 and of u2,
\* the copy of the 512-byte bundled file and done, in this order.
C33_Witness ==
    \E a \in Attempts :
        /\ attempts[a].pc = "settled"
        /\ attempts[a].ev =
               <<StartEvent(TRUE), DownloadStart(U1), DownloadFailed(U1, NotOk),
                 DownloadStart(U2), DownloadFailed(U2, NotOk), CopyStart(BundledPath),
                 CopySuccess(BundledPath, 512), Done(attempts[a].out)>>
        /\ attempts[a].out = Result(attempts[a].path, "bundled-copy", TRUE, 512, NoUrl)

\* C38: every result an attempt resolves with, and so every result a call
\* resolves with, has changed = false exactly when source = 'existing', a
\* downloadUrl exactly when source = 'download', at least 64 bytes, and as
\* dbPath the resolved destination path of the attempt.
C38_ResultShape ==
    /\ \A a \in Attempts :
           attempts[a].out.kind = "result" =>
               LET r == attempts[a].out
               IN /\ r.source \in {"existing", "download", "bundled-copy"}
                  /\ ~r.changed <=> r.source = "existing"
                  /\ r.downloadUrl # NoUrl <=> r.source = "download"
                  /\ r.bytes >= 64
                  /\ r.dbPath = attempts[a].path
                  /\ \E raw \in RawPaths : r.dbPath = Resolve(raw)
                  /\ r.dbPath.dir = Cwd \o <<"data">>
    /\ \A c \in Calls :
           (CallSettled(c) /\ CallOutcome(c).kind = "result") =>
               CallOutcome(c).dbPath \in DestPaths

\* C38 witness: a result of each source: the existing 256-byte file, then a
\* forced download of 64 bytes from u1.
C38_Witness ==
    /\ Len(attempts) = 2
    /\ attempts[1].out = Result(Resolve([rel |-> TRUE, dir |-> <<"data">>, base |-> "docs.parquet"]),
                                "existing", FALSE, 256, NoUrl)
    /\ attempts[2].out.source = "download" /\ attempts[2].out.changed
    /\ attempts[2].out.downloadUrl = U1 /\ attempts[2].out.bytes = 64

\* An attempt that has not resolved has left its destination as it found it.
RejectedLeavesDestination ==
    \A a \in Attempts :
        (attempts[a].pc \notin {"done"} /\ attempts[a].out.kind # "result") =>
            files[attempts[a].path] = attempts[a].before

\* The step at which the promise of a rejected attempt settles for its callers
\* finds the destination as the attempt found it.
RejectionStep ==
    \A a \in Attempts :
        (attempts[a].pc = "settled" /\ attempts[a].out.kind = "error"
            /\ attempts'[a].pc = "done") =>
            /\ files[attempts[a].path] = attempts[a].before
            /\ files'[attempts[a].path] = attempts[a].before

\* C39: when ensureDocsParquet rejects, the destination file is as it was
\* when the attempt began, at every moment up to the rejection: a forced
\* refresh whose downloads and bundled copy all fail leaves the snapshot that
\* existed in place.
C39_RejectionLeavesDestination == []RejectedLeavesDestination /\ [][RejectionStep]_vars

\* C39 witness: a forced refresh over the valid 256-byte snapshot failed to
\* download from u1 and u2 and failed to copy the bundled file: it rejected
\* and the destination still holds the 256 bytes.
C39_Witness ==
    \E a \in Attempts :
        /\ attempts[a].pc = "settled" /\ attempts[a].force
        /\ attempts[a].out.kind = "error" /\ attempts[a].out.why = "copy"
        /\ attempts[a].urls = <<U1, U2>> /\ attempts[a].fetches = 2
        /\ attempts[a].before = FileOf(256, <<"old">>, TRUE)
        /\ files[attempts[a].path] = FileOf(256, <<"old">>, TRUE)

(***************************************************************************)
(* Claims about fetchWithRetry, checked under RetrySpec.                   *)
(***************************************************************************)
\* The error a settled fetch(url) stands for.
ErrorOf(resp) == IF resp.kind = "http" THEN HttpError(resp.status) ELSE TransportError

\* A response or throw after which the code may go round the loop again.
RetryableOutcome(resp) == resp.kind = "transport" \/ resp.status >= 500

\* C9: at most 4 fetch calls; every fetch but the last was answered by a status
\* >= 500 or a transport error; and after a 4th failed fetch the promise is
\* rejected with the error of that fetch.
C9_AtMostFourAttempts ==
    /\ fetchCalls <= 4
    /\ Len(responses) <= fetchCalls
    /\ \A k \in 1..Len(responses) : k < fetchCalls => RetryableOutcome(responses[k])
    /\ (Len(responses) = 4 /\ ~(responses[4].kind = "http" /\ Ok(responses[4].status))) =>
           /\ retryPc = "rejected"
           /\ thrown = ErrorOf(responses[4])

\* C9 witness: 503, transport error, 500, transport error: rejected after the
\* 4th fetch with the transport error.
C9_Witness ==
    /\ retryPc = "rejected" /\ fetchCalls = 4
    /\ responses = <<HttpResponse(503), TransportError, HttpResponse(500), TransportError>>
    /\ thrown = TransportError

\* C10: a non-OK response with a status below 500 is the last one: the promise
\* is rejected at once with an error carrying that status, no fetch and no
\* delay follows, and as first response it leaves exactly 1 fetch call.
C10_NoRetryBelow500 ==
    \A k \in 1..Len(responses) :
        (responses[k].kind = "http" /\ ~Ok(responses[k].status) /\ responses[k].status < 500) =>
            /\ k = Len(responses)
            /\ retryPc = "rejected"
            /\ thrown = HttpError(responses[k].status)
            /\ fetchCalls = k
            /\ Len(delays) = k - 1

\* C10 witness: the first response is a 404: rejected after 1 fetch, no delay.
C10_Witness ==
    /\ responses = <<HttpResponse(404)>>
    /\ retryPc = "rejected" /\ thrown = HttpError(404)
    /\ fetchCalls = 1 /\ delays = <<>>

\* A settled fetch(url) that answered with a 2xx response.
IsOkResponse(resp) == resp.kind = "http" /\ resp.status >= 200 /\ resp.status <= 299

\* C11: an OK response on fetch k is the last one: every earlier fetch was
\* answered by a 5xx or a transport error, the promise is resolved after exactly
\* k <= 4 fetch calls and k - 1 delays, nothing is thrown, and the promise is
\* resolved only by an OK response.
C11_ResolvesOnFirstOk ==
    /\ \A k \in 1..Len(responses) :
           IsOkResponse(responses[k]) =>
               /\ k <= 4
               /\ k = Len(responses)
               /\ \A j \in 1..(k - 1) : RetryableOutcome(responses[j])
               /\ retryPc = "resolved"
               /\ fetchCalls = k
               /\ Len(delays) = k - 1
               /\ thrown = NoError
    /\ retryPc = "resolved" =>
           (Len(responses) >= 1 /\ IsOkResponse(responses[Len(responses)]))

\* C11 witness: 503, 503, then a 204: resolved after exactly 3 fetch calls.
C11_Witness ==
    /\ responses = <<HttpResponse(503), HttpResponse(503), HttpResponse(204)>>
    /\ retryPc = "resolved" /\ fetchCalls = 3

\* The bounds of the delay before retry n: 1000 * 2^(n-1) ms times 0.75 and 1.25.
DelayLow(n) == (750 * Pow(2, n - 1))
DelayHigh(n) == (1250 * Pow(2, n - 1))

\* C12: the first fetch is preceded by no delay (there is one delay per fetch
\* after the first, computed before that fetch is called); the delay before
\* retry n lies within 1000 * 2^(n-1) ms scaled by [0.75, 1.25]; there are at
\* most 3 delays; and each delay is strictly greater than the one before it.
C12_DelaysGrow ==
    /\ Len(delays) = (fetchCalls - 1) + (IF retryPc = "delay" THEN 1 ELSE 0)
    /\ Len(delays) <= 3
    /\ \A n \in 1..Len(delays) : DelayLow(n) <= delays[n] /\ delays[n] <= DelayHigh(n)
    /\ \A n \in 2..Len(delays) : delays[n] > delays[n - 1]

\* C12 witness: three retries whose jitter draws were the highest, the lowest
\* and the highest: 1245 ms, 1500 ms, 4980 ms.
C12_Witness ==
    /\ fetchCalls = 4
    /\ delays = <<ComputeDelay(0, 99), ComputeDelay(1, 0), ComputeDelay(2, 99)>>
    /\ delays[1] = 1245 /\ delays[2] = 1500

(***************************************************************************)
(* Claims about fetchAllDocs, checked under DocsSpec.                      *)
(***************************************************************************)
\* The page numbers, in index order, whose fetchFragment resolved / rejected.
PagesOk == SelectSeq([i \in 1..Len(fragOutcome) |-> i], LAMBDA i : fragOutcome[i] = "ok")
PagesFailed ==
    SelectSeq([i \in 1..Len(fragOutcome) |-> i], LAMBDA i : fragOutcome[i] \in FragmentFailures)

\* How often x occurs in the sequence seq.
Occurrences(seq, x) == Cardinality({k \in 1..Len(seq) : seq[k] = x})

\* fetchAllDocs has built its two lists (it is writing, has returned, or the
\* writer threw).
Partitioned == docPc \in {"write", "returned"} \/ (docPc = "rejected" /\ docError = "write")

\* The positions of the events of one type.
EventsOfType(type) == {k \in 1..Len(events) : events[k].type = type}

\* C13: once the page index has been obtained fetchAllDocs rejects only when
\* the writer throws, never because of a page; when every task has run to its
\* end the scheduler's promise is resolved so that the run goes on; and the
\* value it resolves with reports totalPages, the number of pages fetched and
\* one failed URL per page that failed, whatever the pages' outcomes.
C13_FragmentFailuresNeverReject ==
    /\ (docPc = "rejected" /\ called) => docError = "write"
    /\ docPc = "rejected" => docError \in {"entry", "no-language", "meta", "write"}
    /\ (docPc = "tasks" /\ \A i \in TaskIds : taskState[i] = "done") => resolved
    /\ docPc = "returned" =>
           /\ docResult.totalPages = Len(pageHashes)
           /\ docResult.fetchedPages = Len(PagesOk)
           /\ Len(docResult.failedUrls) = Len(PagesFailed)

\* C13 witness: a run over two pages, one answered 404 and one undecodable,
\* returned a result with no page fetched and two failed URLs.
C13_Witness ==
    /\ docPc = "returned"
    /\ fragOutcome = <<"http404", "undecodable">>
    /\ docResult.totalPages = 2 /\ docResult.fetchedPages = 0
    /\ Len(docResult.failedUrls) = 2

\* C14: in every result totalPages = fetchedPages + failedUrls.length, and
\* once the lists are built every page of the index is either among the
\* records handed to the writer (exactly once, and only if its fetch resolved)
\* or among failedUrls (exactly once, and only if its fetch rejected).
C14_NoSilentDataLoss ==
    /\ docPc = "returned" =>
           docResult.totalPages = docResult.fetchedPages + Len(docResult.failedUrls)
    /\ Partitioned =>
           /\ Len(writerCalls) = 1
           /\ Len(pageHashes) = Len(writerCalls[1]) + Len(failedUrls)
           /\ \A i \in 1..Len(pageHashes) :
                  LET inRecords == Occurrences(writerCalls[1], PageRecord(pageHashes[i]))
                      inFailed == Occurrences(failedUrls, FragmentUrl(pageHashes[i]))
                  IN /\ inRecords + inFailed = 1
                     /\ inRecords = 1 <=> fragOutcome[i] = "ok"
                     /\ inFailed = 1 <=> fragOutcome[i] \in FragmentFailures

\* C14 witness: of two pages the first was fetched and the second exhausted its
\* retries: one record went to the writer, one URL to failedUrls.
C14_Witness ==
    /\ docPc = "returned"
    /\ fragOutcome = <<"ok", "exhausted">>
    /\ writerCalls = << <<PageRecord(pageHashes[1])>> >>
    /\ docResult.failedUrls = <<FragmentUrl(pageHashes[2])>>

\* C15: failedUrls is the list of the fragment URLs of the pages whose fetch
\* rejected, each rebuilt from the page's own hash, in page-index order, and
\* fetchedRecords is the list of the records of the pages whose fetch
\* resolved, in page-index order.
C15_PartitionInIndexOrder ==
    Partitioned =>
        /\ failedUrls = [k \in 1..Len(PagesFailed) |-> FragmentUrl(pageHashes[PagesFailed[k]])]
        /\ fetchedRecords = [k \in 1..Len(PagesOk) |-> PageRecord(pageHashes[PagesOk[k]])]
        /\ \A k \in 1..Len(failedUrls) :
               failedUrls[k] = <<PAGEFIND_BASE, "/fragment/", pageHashes[PagesFailed[k]], ".pf_fragment">>

\* C15 witness: the second page failed before the first one did (its
\* 'page-failed' event came first), and failedUrls lists the first page first.
C15_Witness ==
    /\ docPc = "returned" /\ Len(pageHashes) = 2
    /\ \E j, k \in EventsOfType("page-failed") :
           /\ j < k
           /\ events[j].url = FragmentUrl(pageHashes[2])
           /\ events[k].url = FragmentUrl(pageHashes[1])
    /\ failedUrls = <<FragmentUrl(pageHashes[1]), FragmentUrl(pageHashes[2])>>

\* C16: when the entry point cannot be fetched, lists no language, or the page
\* index cannot be fetched, fetchAllDocs rejects with no scheduler call, no
\* fragment fetch started, no event and no writer call; an entry point without
\* a language leads nowhere else; and the page index is requested for the
\* hash of the first language key.
C16_EnumerationFailuresAreFatal ==
    /\ (docPc = "rejected" /\ docError \in {"entry", "no-language", "meta"}) =>
           /\ ~called /\ tasks = 0 /\ index = 0
           /\ pageHashes = <<>>
           /\ writerCalls = <<>>
           /\ events = <<>>
    /\ (docPc # "entry" /\ docError # "entry" /\ entryLangs = <<>>) =>
           (docPc = "rejected" /\ docError = "no-language")
    /\ (docPc # "entry" /\ entryLangs # <<>>) => metaHash = entryLangs[1].hash
    /\ docPc \in {"meta", "tasks", "write", "returned"} => entryLangs # <<>>

\* C16 witness: the entry point listed de before en, the page index was
\* requested for the hash of de, and its fetch failed: the run is rejected.
C16_Witness ==
    /\ docPc = "rejected" /\ docError = "meta"
    /\ entryLangs = <<Lang("de", "hashDe"), Lang("en", "hashEn")>>
    /\ metaHash = "hashDe"

\* C17: writeParquet is called at most once and never before the scheduler's
\* promise resolved; when it is called every task has run to its end and it
\* is handed all the records of the pages that resolved, in one call; and a
\* run that got past the tasks has called it exactly once.
C17_WriterCalledOnceWithAll ==
    /\ Len(writerCalls) <= 1
    /\ docPc \in {"entry", "meta", "tasks"} => writerCalls = <<>>
    /\ Partitioned => Len(writerCalls) = 1
    /\ Len(writerCalls) = 1 =>
           /\ resolved
           /\ \A i \in TaskIds : taskState[i] = "done" /\ fragOutcome[i] # "none"
           /\ writerCalls[1] = [k \in 1..Len(PagesOk) |-> PageRecord(pageHashes[PagesOk[k]])]

\* C17 witness: both pages of the index failed and the writer was still called,
\* once, with the empty list.
C17_Witness ==
    /\ docPc = "returned" /\ Len(pageHashes) = 2
    /\ Len(PagesFailed) = 2
    /\ writerCalls = << <<>> >>

\* C18: no event is delivered after the promise settled; the first event of a
\* run that started a fragment fetch is 'discovered', and there is only one;
\* the 'progress' events count upwards and every 'page-failed' event belongs
\* to a page whose fetch rejected; 'completed' is delivered only after the
\* write, as the last event, and a run that returned has delivered it.
C18_EventsBeforeSettle ==
    /\ docPc \in {"returned", "rejected"} <=> eventsAtSettle # NotSettled
    /\ eventsAtSettle # NotSettled => Len(events) = eventsAtSettle
    /\ (called \/ events # <<>>) =>
           (events # <<>> /\ events[1] = Discovered(Len(pageHashes)))
    /\ Cardinality(EventsOfType("discovered")) <= 1
    /\ \A j, k \in EventsOfType("progress") :
           j < k => events[j].processedPages < events[k].processedPages
    /\ \A k \in EventsOfType("page-failed") :
           \E i \in 1..Len(pageHashes) :
               /\ events[k] = PageFailed(FragmentUrl(pageHashes[i]), fragOutcome[i])
               /\ fragOutcome[i] \in FragmentFailures
    /\ \A k \in EventsOfType("completed") :
           /\ k = Len(events)
           /\ docPc = "returned"
           /\ Len(writerCalls) = 1
           /\ events[k] = Completed(Len(pageHashes), Len(PagesOk), Len(PagesFailed))
    /\ docPc = "returned" => (events # <<>> /\ events[Len(events)].type = "completed")

\* C18 witness: a run that reports every page delivered 'discovered', a
\* 'page-failed', two 'progress' events and 'completed', in this order.
C18_Witness ==
    /\ docPc = "returned" /\ Len(pageHashes) = 2
    /\ Len(events) = 5
    /\ events[1].type = "discovered"
    /\ events[2].type = "page-failed"
    /\ events[3] = Progress(1, 2)
    /\ events[4] = Progress(2, 2)
    /\ events[5].type = "completed"

\* The 'progress' events delivered so far, in order of delivery.
ProgressEvents == SelectSeq(events, LAMBDA e : e.type = "progress")

\* The counts up to n at which a progress event is due: the multiples of
\* every (no count is a multiple of 0) and the total.
ProgressPoints(n, every, total) ==
    SelectSeq([k \in 1..n |-> k], LAMBDA k : (every # 0 /\ k % every = 0) \/ k = total)

\* The pages whose chain has run its finally handler.
SettledPages == {i \in 1..Len(chain) : chain[i] = "finalized"}

\* C31: processedPages is the number of fragment tasks settled so far, and the
\* 'progress' events delivered are exactly one per count reached so far that
\* is a multiple of progressEvery or equals totalPages, in increasing order
\* of processedPages; once every page of a non-empty index has settled the
\* last progress event reports processedPages = totalPages, and only one
\* event does.
C31_ProgressCadence ==
    called =>
        /\ processedPages = Cardinality(SettledPages)
        /\ LET due == ProgressPoints(processedPages, progressEvery, Len(pageHashes))
           IN ProgressEvents = [j \in 1..Len(due) |-> Progress(due[j], Len(pageHashes))]
        /\ \A j \in 1..Len(ProgressEvents) - 1 :
               ProgressEvents[j].processedPages < ProgressEvents[j + 1].processedPages
        /\ (Len(pageHashes) > 0 /\ Cardinality(SettledPages) = Len(pageHashes)) =>
               /\ ProgressEvents # <<>>
               /\ ProgressEvents[Len(ProgressEvents)] = Progress(Len(pageHashes), Len(pageHashes))
               /\ Occurrences(events, Progress(Len(pageHashes), Len(pageHashes))) = 1

\* C31 witness: with progressEvery left out (100) a run over two pages returned
\* having delivered one progress event, for the total, which is no multiple.
C31_Witness ==
    /\ docPc = "returned" /\ Len(pageHashes) = 2
    /\ progressEvery = BATCH_SIZE
    /\ ProgressEvents = <<Progress(2, 2)>>

\* The positions of the 'page-failed' events that carry the URL of page i.
FailedEventsOf(i) ==
    {k \in EventsOfType("page-failed") : events[k].url = FragmentUrl(pageHashes[i])}

\* The step is the finally handler of page i.
FinallyOf(i) == chain[i] # "finalized" /\ chain'[i] = "finalized"

\* C32 (state part): a page whose fragment fetch failed has exactly one
\* 'page-failed' event, carrying its fragment URL, from its catch handler on,
\* and no other page has one; once the lists are built the number of
\* 'page-failed' events is failedUrls.length, and the 'completed' event
\* reports that number as failedPages with fetchedPages + failedPages =
\* totalPages.
C32_FailedPagesState ==
    /\ \A i \in 1..Len(chain) :
           Cardinality(FailedEventsOf(i)) =
               IF chain[i] \in {"reported", "finalized"} /\ fragOutcome[i] \in FragmentFailures
               THEN 1 ELSE 0
    /\ Partitioned => Cardinality(EventsOfType("page-failed")) = Len(failedUrls)
    /\ \A k \in EventsOfType("completed") :
           /\ events[k].failedPages = Cardinality(EventsOfType("page-failed"))
           /\ events[k].failedPages = Len(failedUrls)
           /\ events[k].fetchedPages + events[k].failedPages = events[k].totalPages

\* C32 (step part): when the finally handler of a failed page runs, the step
\* that counts the page and may deliver the progress event for it, the
\* page's 'page-failed' event has been delivered already.
C32_FailedBeforeCounted ==
    \A i \in 1..Len(chain) :
        (FinallyOf(i) /\ fragOutcome[i] \in FragmentFailures) =>
            /\ FailedEventsOf(i) # {}
            /\ \A k \in 1..Len(events') :
                   (events'[k].type = "progress" /\ events'[k].processedPages = processedPages')
                       => \A j \in FailedEventsOf(i) : j < k

\* C32: for every page whose fragment fetch fails exactly one 'page-failed'
\* event with the page's fragment URL is delivered, before the progress event
\* that counts the page; at completion the number of 'page-failed' events
\* equals failedUrls.length and the failedPages of 'completed', and in that
\* event fetchedPages + failedPages = totalPages.
C32_OnePageFailedPerFailure == []C32_FailedPagesState /\ [][C32_FailedBeforeCounted]_vars

\* C32 witness: of two pages the second failed and was counted first: its
\* 'page-failed' event precedes Progress(1, 2), and 'completed' reports one
\* fetched and one failed page.
C32_Witness ==
    /\ docPc = "returned" /\ fragOutcome = <<"ok", "http404">>
    /\ Len(events) = 5
    /\ events[2] = PageFailed(FragmentUrl(pageHashes[2]), "http404")
    /\ events[3] = Progress(1, 2)
    /\ events[4] = Progress(2, 2)
    /\ events[5] = Completed(2, 1, 1)

(***************************************************************************)
(* Specifications of the pure functions: the input is drawn by the initial *)
(* predicate, the step applies the function.                               *)
(***************************************************************************)
FrameSpecInit ==
    FrameInit /\ CoreIdle /\ UrlsIdle /\ StoreIdle /\ PluginIdle /\ ListIdle /\ ConfigIdle /\ McpIdle
FrameSpec == FrameSpecInit /\ [][FrameNext]_vars

UrlsSpecInit ==
    UrlsInit /\ CoreIdle /\ FrameIdle /\ StoreIdle /\ PluginIdle /\ ListIdle /\ ConfigIdle /\ McpIdle
UrlsSpec == UrlsSpecInit /\ [][UrlsNext]_vars

(***************************************************************************)
(* Claims about decompressPagefind, checked under FrameSpec.               *)
(***************************************************************************)
\* C25: for every 12-byte header h, whatever its content, and every payload P
\* the call on gzip(h ++ P) returns exactly P; and the call on gzip(s) for data
\* s of fewer than 12 bytes throws the length error (the header is taken off
\* the decompressed data, and only its length is looked at).
C25_DecompressInvertsFraming ==
    pfOut # NotCalled =>
        /\ \A h \in Headers, p \in Payloads :
               pfData = GzipSync(h \o p) => pfOut = Returned(p)
        /\ \A sd \in ShortData :
               pfData = GzipSync(sd) => pfOut = Threw("shorter than header")

\* C25 witness: a payload framed behind twelve zero bytes came back unchanged.
C25_Witness ==
    /\ pfData = GzipSync([i \in 1..12 |-> 0] \o <<120, 0, 120>>)
    /\ pfOut = Returned(<<120, 0, 120>>)

(***************************************************************************)
(* Claims about normalizeSnapshotUrls, checked under UrlsSpec.             *)
(***************************************************************************)
\* out lists the members of list once each, in the order of their first
\* occurrence in list.
FirstOccurrences(list, out) ==
    /\ {out[k] : k \in 1..Len(out)} = {list[k] : k \in 1..Len(list)}
    /\ \A j, k \in 1..Len(out) : j < k =>
           /\ out[j] # out[k]
           /\ (CHOOSE m \in 1..Len(list) : list[m] = out[j] /\ \A n \in 1..(m - 1) : list[n] # out[j])
                  < (CHOOSE m \in 1..Len(list) : list[m] = out[k] /\ \A n \in 1..(m - 1) : list[n] # out[k])

\* The URLs the environment configures: the entries of ..._SNAPSHOT_URLS, then
\* ..._SNAPSHOT_URL.
EnvList == EnvMany(envManyRaw) \o EnvSingle(envSingleRaw)

\* C26 as stated: the explicit list when supplied, otherwise the environment's
\* list when one is set, otherwise the built-in default alone; duplicates
\* removed, first occurrences kept.
C26_AsStated ==
    urlsOut # NotCalled =>
        FirstOccurrences(
            IF customUrls.set THEN customUrls.value
            ELSE IF EnvList # <<>> THEN EnvList
            ELSE DEFAULT_DOCS_SNAPSHOT_URLS,
            urlsOut.value)

\* C26 amended: the explicit list when supplied, otherwise the environment's
\* URLs followed by the built-in default; duplicates removed, first occurrences
\* kept.
C26_EnvThenDefault ==
    urlsOut # NotCalled =>
        FirstOccurrences(
            IF customUrls.set THEN customUrls.value
            ELSE EnvList \o DEFAULT_DOCS_SNAPSHOT_URLS,
            urlsOut.value)

\* C26 witness: no explicit list, ..._URLS = "d,u" and ..._URL = "u": the
\* candidates are d and u, the default not being listed a second time.
C26_Witness ==
    /\ customUrls = Undefined
    /\ envManyRaw = Defined(<<"d", ",", "u">>) /\ envSingleRaw = Defined(<<"u">>)
    /\ urlsOut = Returned(<< <<"d">>, <<"u">> >>)

(***************************************************************************)
(* Claims about the SQLite store, checked under StoreSpec.                 *)
(***************************************************************************)
StoreSpecInit ==
    StoreInit /\ CoreIdle /\ FrameIdle /\ UrlsIdle /\ PluginIdle /\ ListIdle /\ ConfigIdle /\ McpIdle
StoreSpec == StoreSpecInit /\ [][StoreNext]_vars

\* The last record inserted with url.
LastInserted(url) ==
    inserted[CHOOSE k \in 1..Len(inserted) :
                 inserted[k].url = url /\ \A j \in (k + 1)..Len(inserted) : inserted[j].url # url]

\* C27: no two rows share a url, the urls of the table are the urls inserted,
\* and reading a url back gives every field of the last record inserted with
\* it (title, content, wordCount, meta, fetchedAt).
C27_LastWriteWins ==
    /\ \A j, k \in 1..Len(pagesTable) : j # k => pagesTable[j].url # pagesTable[k].url
    /\ {pagesTable[k].url : k \in 1..Len(pagesTable)} = {inserted[k].url : k \in 1..Len(inserted)}
    /\ \A k \in 1..Len(inserted) :
           GetPage(pagesTable, inserted[k].url) = LastInserted(inserted[k].url)

\* C27 witness: /foundry/a/ was inserted twice with records that differ in every
\* field, /foundry/b/ in between; the table has two rows and the row of
\* /foundry/a/ reads back as the second record.
C27_Witness ==
    /\ Len(inserted) = 3 /\ Len(pagesTable) = 2
    /\ inserted[1].url = "/foundry/a/" /\ inserted[1].title = "T1"
    /\ inserted[2].url = "/foundry/b/"
    /\ inserted[3] = [url |-> "/foundry/a/", title |-> "T2", content |-> "c2", wordCount |-> 2,
                      meta |-> << <<"title", "B">>, <<"lang", "en">> >>, fetchedAt |-> "d2"]
    /\ GetPage(pagesTable, "/foundry/a/") = inserted[3]
    /\ pagesTable[1].id = 1

(***************************************************************************)
(* Claims about the plugin instance, checked under PluginSpec.             *)
(***************************************************************************)
PluginSpecInit ==
    PluginInit /\ CoreIdle /\ FrameIdle /\ UrlsIdle /\ StoreIdle /\ ListIdle /\ ConfigIdle /\ McpIdle
PluginSpec == PluginSpecInit /\ [][PluginNext]_vars

\* C28 as stated: since the plugin was made or last refreshed createDatabase
\* has been invoked at most once, however the tool calls overlap.
C28_AsStated == createCalls <= 1

\* C40 as stated: every query of a tool call that started after a
\* refresh-docs command completed is answered from the docs file as that
\* refresh, or a later write, left it, never from what a store loaded from
\* the file before the refresh - also when the store was being opened by a
\* call while the refresh ran and was cached after it.
C40_AsStated ==
    \A c \in ToolCalls :
        \A k \in 1..Len(toolCalls[c].saw) : toolCalls[c].saw[k] >= toolCalls[c].began

(***************************************************************************)
(* Claims about list_all_docs, checked under ListSpec.                     *)
(***************************************************************************)
ListSpecInit ==
    ListInit /\ CoreIdle /\ FrameIdle /\ UrlsIdle /\ StoreIdle /\ PluginIdle /\ ConfigIdle /\ McpIdle
ListSpec == ListSpecInit /\ [][ListNext]_vars

\* The pages of the store the scope of the last call and the query of args
\* select: those in scope that the query, when there is one, matches.
SelectedPages(args) ==
    LET query == IF args.query.set THEN Trim(args.query.value) ELSE <<>>
    IN {listPages[k] : k \in {j \in 1..Len(listPages) :
            /\ IsInScope(listPages[j].url, listOut.scope)
            /\ Len(query) > 0 => ScorePageMatch(listPages[j], query) > 0}}

\* page is entry number n (from 1) of the selected pages in URL order.
IsNthByUrl(page, n, selected) ==
    /\ page \in selected
    /\ Cardinality({q \in selected : UrlLess(q.url, page.url)}) = n - 1

\* C29 as stated: a call with valid arguments returns at most limit entries
\* (50 when no limit is given), namely entries offset .. offset+limit-1 of the
\* selected pages in URL order; the 'Next' hint is there iff offset + returned
\* < total and names offset + returned; and a walk from offset 0 along the
\* hints has, when no hint is left, returned every page the first call
\* selects once, in URL order. A call with a query lists by score before
\* URL, and the hint leaves the query out, so the walk goes on in the list
\* of the scope alone.
C29_AsStated ==
    (listOut # NotCalled /\ listOut.kind \in {"page", "beyond"}) =>
        LET selected == SelectedPages(listArgs)
            total == Cardinality(selected)
        IN /\ listOut.limit = (IF listArgs.limit.set THEN IntegerOf(listArgs.limit.value) ELSE 50)
           /\ listOut.limit \in 1..200
           /\ listOut.offset =
                  (IF listArgs.offset.set THEN IntegerOf(listArgs.offset.value) ELSE 0)
           /\ listOut.total = total
           /\ listOut.returned = Len(listOut.entries)
           /\ listOut.returned = Min(listOut.limit, Max(total - listOut.offset, 0))
           /\ \A k \in 1..Len(listOut.entries) :
                  IsNthByUrl(listOut.entries[k], listOut.offset + k, selected)
           /\ listOut.next.set <=> listOut.offset + listOut.returned < total
           /\ listOut.next.set => listOut.next.value = listOut.offset + listOut.returned
           /\ (walking /\ ~listOut.next.set) =>
                  /\ Len(walked) = Cardinality(SelectedPages(listFirst))
                  /\ \A k \in 1..Len(walked) :
                         IsNthByUrl(walked[k], k, SelectedPages(listFirst))

(***************************************************************************)
(* Claims about the config hook, checked under ConfigSpec.                 *)
(***************************************************************************)
ConfigSpecInit ==
    ConfigInit /\ CoreIdle /\ FrameIdle /\ UrlsIdle /\ StoreIdle /\ PluginIdle /\ ListIdle
    /\ McpIdle
ConfigSpec == ConfigSpecInit /\ [][ConfigNext]_vars

\* The agent the user gave under name n, {} for none.
GivenAgent(n) ==
    IF cfgGiven.agent.set /\ cfgGiven.agent.value[n].set THEN cfgGiven.agent.value[n].value
    ELSE EmptyAgent

\* C30 as stated: after the hook has run, every command definition, agent
\* prompt, agent description and tool toggle the user had given is what it
\* was. A description or prompt that is not a string is replaced by the
\* default.
C30_AsStated ==
    hookRuns >= 1 =>
        /\ \A n \in CommandNames :
               (cfgGiven.command.set /\ cfgGiven.command.value[n].set) =>
                   cfg.command.value[n] = cfgGiven.command.value[n]
        /\ \A n \in AgentNames :
               LET now == cfg.agent.value[n].value
                   was == GivenAgent(n)
               IN /\ was.prompt.set => now.prompt = was.prompt
                  /\ was.description.set => now.description = was.description
                  /\ \A t \in ToolNames :
                         (was.tools.set /\ was.tools.value[t].set) =>
                             now.tools.value[t] = was.tools.value[t]

\* C30: after the hook has run, every command definition, every agent prompt
\* and agent description that was a string and every tool toggle the user
\* had given is what it was, each of the three commands and two agents is
\* defined with a prompt and a description that are strings and with both
\* toggles, and a second run has changed nothing.
C30_HookOnlyAddsMissing ==
    hookRuns >= 1 =>
        /\ \A n \in CommandNames :
               /\ cfg.command.value[n].set
               /\ (cfgGiven.command.set /\ cfgGiven.command.value[n].set) =>
                      cfg.command.value[n] = cfgGiven.command.value[n]
        /\ \A n \in AgentNames :
               LET now == cfg.agent.value[n].value
                   was == GivenAgent(n)
               IN /\ TypeofIs(now.prompt, "string") /\ TypeofIs(now.description, "string")
                  /\ TypeofIs(was.prompt, "string") => now.prompt = was.prompt
                  /\ TypeofIs(was.description, "string") => now.description = was.description
                  /\ \A t \in ToolNames :
                         /\ now.tools.value[t].set
                         /\ (was.tools.set /\ was.tools.value[t].set) =>
                                now.tools.value[t] = was.tools.value[t]
        /\ hookRuns >= 2 => cfg = cfgAfterFirst

\* C30 witness: the config of the test (a custom refresh-docs command, a
\* foundry agent with a custom prompt and get_doc_page enabled) and a
\* librarian whose description is the number 42, after two runs: the custom
\* values stand, list_all_docs was added as false, the number was replaced.
C30_Witness ==
    /\ hookRuns = 2
    /\ cfgGiven.command.set /\ cfgGiven.agent.set
    /\ cfgGiven.command.value["refresh-docs"] =
           Defined([template |-> Defined("CUSTOM_TEMPLATE"),
                    description |-> Defined("CUSTOM_DESCRIPTION")])
    /\ cfg.command.value["refresh-docs"] = cfgGiven.command.value["refresh-docs"]
    /\ ~cfgGiven.command.value["setup-palantir-mcp"].set
    /\ cfg.agent.value["foundry"].value.prompt = Defined(JsString("CUSTOM_PROMPT"))
    /\ cfg.agent.value["foundry"].value.tools.value["get_doc_page"] = Defined(TRUE)
    /\ cfg.agent.value["foundry"].value.tools.value["list_all_docs"] = Defined(FALSE)
    /\ GivenAgent("foundry-librarian").description = Defined(JsNumber(42))
    /\ GivenAgent("foundry-librarian").prompt = Defined(JsString("CUSTOM_PROMPT"))
    /\ cfg.agent.value["foundry-librarian"].value.prompt = Defined(JsString("CUSTOM_PROMPT"))
    /\ cfg.agent.value["foundry-librarian"].value.description =
           Defined(JsString(DefaultDescription("foundry-librarian")))
    /\ cfg # cfgGiven

(***************************************************************************)
(* listPalantirMcpTools (fetch.ts): the JSON-RPC client that spawns         *)
(* palantir-mcp, performs the MCP handshake over the child's stdin and      *)
(* stdout and lists its tools.  The child is the environment: it may write  *)
(* any line at any time and end either stream at any time.                  *)
(***************************************************************************)
MaxLines == 3

\* type JsonRpcId = number | string; NoId stands for a message without one.
Num(n) == [type |-> "number", v |-> n]
Str(n) == [type |-> "string", v |-> n]
NoId == [type |-> "undefined", v |-> 0]

\* A line of the child's stdout: blank after trim(), text JSON.parse rejects,
\* or a JSON message with its id and whether it carries an error member.
BlankLine == [kind |-> "blank", id |-> NoId, error |-> FALSE]
Unparsable == [kind |-> "text", id |-> NoId, error |-> FALSE]
Message(id, isError) == [kind |-> "json", id |-> id, error |-> isError]

\* The lines the child may write: responses to the two requests, a response
\* with an id nobody sent, one whose id is the string "1", a message without
\* an id, and the lines that are no message at all.
ChildLines ==
    {BlankLine, Unparsable, Message(NoId, FALSE), Message(Num(7), FALSE),
     Message(Str(1), FALSE)}
        \cup {Message(Num(n), e) : n \in 1..2, e \in BOOLEAN}

\* The entries of mcpTrace.
Registered(id) == [ev |-> "pending.set", id |-> id, what |-> ""]
Written(method, id) == [ev |-> "write", id |-> id, what |-> method]
Settled(id, how) == [ev |-> "settle", id |-> id, what |-> how]

\* How the promise of request id has been settled so far, in order.
Replies(id) == SelectSeq(mcpTrace, LAMBDA e : e.ev = "settle" /\ e.id = id)

\* What listPalantirMcpTools ended with.
ListedNames == [kind |-> "names"]
McpFailed(why) == [kind |-> "error", why |-> why]

\* sendRequest up to its await: the id, the pending entry, then the write.
RequestTrace(method, id) == <<Registered(id), Written(method, id)>>

\* The body of the inner loop of stdoutPump that drops the answered entry
\* only after a second response.
HandleLineKeepsEntry(st, line) ==
    IF line.kind # "json" THEN st
    ELSE IF line.id.type \notin {"number", "string"} THEN st
    ELSE IF line.id \notin st.pending THEN st
    ELSE [pending |-> IF \E k \in 1..Len(st.trace) :
                             st.trace[k].ev = "settle" /\ st.trace[k].id = line.id
                      THEN st.pending \ {line.id} ELSE st.pending,
          trace |-> Append(st.trace,
                           Settled(line.id, IF line.error THEN "error" ELSE "result"))]

\* The body of the inner loop of stdoutPump for one line: a blank line, a
\* line JSON.parse rejects, a message whose id is no number or string and a
\* message whose id is not pending are skipped; otherwise the entry is
\* deleted and its promise rejected (error member) or resolved.
HandleLine(st, line) ==
    IF line.kind # "json" THEN st
    ELSE IF line.id.type \notin {"number", "string"} THEN st
    ELSE IF line.id \notin st.pending THEN st
    ELSE [pending |-> st.pending \ {line.id},
          trace |-> Append(st.trace,
                           Settled(line.id, IF line.error THEN "error" ELSE "result"))]

RECURSIVE HandleLines(_, _)
HandleLines(st, lines) ==
    IF lines = <<>> THEN st
    ELSE HandleLines(HandleLine(st, Head(lines)), Tail(lines))

\* The rejections stdoutPump hands out after its loop, in the Map's order.
RejectPending ==
    LET ids == SelectSeq([i \in 1..(nextId - 1) |-> Num(i)], LAMBDA x : x \in pending)
    IN  [k \in 1..Len(ids) |-> Settled(ids[k], "exit")]

\* The state at the first await of listPalantirMcpTools: the child is
\* spawned, both pumps await their first read, and sendRequest('initialize')
\* has registered id 1 and written its line.
McpInit ==
    /\ mcpPc = "init-write" /\ nextId = 2 /\ pending = {Num(1)}
    /\ stdoutQueue = <<>> /\ stdoutOpen = TRUE /\ stderrOpen = TRUE
    /\ stdoutPump = "reading" /\ stderrPump = "reading" /\ killed = FALSE
    /\ linesWritten = 0 /\ mcpTrace = RequestTrace("initialize", Num(1))
    /\ mcpOut = NotCalled

McpRest == <<coreVars, frameVars, urlVars, storeVars, pluginVars, listVars, configVars>>

\* catch and the synchronous part of finally: the error is wrapped and the
\* child is killed.
McpFail(why) ==
    /\ mcpPc' = "pumps" /\ killed' = TRUE /\ mcpOut' = McpFailed(why)

\* await writeStdin(line) ends: with the line accepted, or with the write
\* throwing.  After the notification, sendRequest('tools/list') runs up to
\* its own await.
WriteStdinDone(ok) ==
    /\ mcpPc \in {"init-write", "notif-write", "list-write"}
    /\ IF ~ok
       THEN McpFail("write") /\ UNCHANGED <<nextId, pending, mcpTrace>>
       ELSE CASE mcpPc = "init-write" ->
                     /\ mcpPc' = "init-wait"
                     /\ UNCHANGED <<nextId, pending, mcpTrace, killed, mcpOut>>
              [] mcpPc = "notif-write" ->
                     /\ mcpPc' = "list-write"
                     /\ nextId' = nextId + 1
                     /\ pending' = pending \cup {Num(nextId)}
                     /\ mcpTrace' = mcpTrace \o RequestTrace("tools/list", Num(nextId))
                     /\ UNCHANGED <<killed, mcpOut>>
              [] mcpPc = "list-write" ->
                     /\ mcpPc' = "list-wait"
                     /\ UNCHANGED <<nextId, pending, mcpTrace, killed, mcpOut>>
    /\ UNCHANGED <<stdoutQueue, stdoutOpen, stderrOpen, stdoutPump, stderrPump,
                   linesWritten, McpRest>>

\* The awaited request has been settled and the function resumes: after the
\* initialize result it sends the notification, after the tools/list result
\* it returns the names (finally kills the child); a rejection is caught.
Replied ==
    /\ mcpPc \in {"init-wait", "list-wait"}
    /\ Replies(Num(nextId - 1)) # <<>>
    /\ LET how == Replies(Num(nextId - 1))[1].what IN
       IF how # "result"
       THEN McpFail(how) /\ UNCHANGED mcpTrace
       ELSE IF mcpPc = "init-wait"
       THEN /\ mcpPc' = "notif-write"
            /\ mcpTrace' = Append(mcpTrace, Written("notifications/initialized", NoId))
            /\ UNCHANGED <<killed, mcpOut>>
       ELSE /\ mcpPc' = "pumps" /\ killed' = TRUE /\ mcpOut' = ListedNames
            /\ UNCHANGED mcpTrace
    /\ UNCHANGED <<nextId, pending, stdoutQueue, stdoutOpen, stderrOpen, stdoutPump,
                   stderrPump, linesWritten, McpRest>>

\* The timer of withTimeout fires before the promise of sendRequest settled.
TimedOut ==
    /\ \/ mcpPc \in {"init-write", "list-write"}
       \/ mcpPc \in {"init-wait", "list-wait"} /\ Replies(Num(nextId - 1)) = <<>>
    /\ McpFail("timeout")
    /\ UNCHANGED <<nextId, pending, stdoutQueue, stdoutOpen, stderrOpen, stdoutPump,
                   stderrPump, linesWritten, mcpTrace, McpRest>>

\* finally that awaits stdoutPump alone.
PumpsSettledStdoutOnly ==
    /\ mcpPc = "pumps"
    /\ stdoutPump = "ended"
    /\ mcpPc' = IF mcpOut.kind = "names" THEN "resolved" ELSE "rejected"
    /\ UNCHANGED <<nextId, pending, stdoutQueue, stdoutOpen, stderrOpen, stdoutPump,
                   stderrPump, killed, linesWritten, mcpTrace, mcpOut, McpRest>>

\* await Promise.allSettled([stdoutPump, stderrPump]) ends and the function
\* settles with what try or catch left.
PumpsSettled ==
    /\ mcpPc = "pumps"
    /\ stdoutPump = "ended" /\ stderrPump = "ended"
    /\ mcpPc' = IF mcpOut.kind = "names" THEN "resolved" ELSE "rejected"
    /\ UNCHANGED <<nextId, pending, stdoutQueue, stdoutOpen, stderrOpen, stdoutPump,
                   stderrPump, killed, linesWritten, mcpTrace, mcpOut, McpRest>>

\* The child writes a line to its stdout.
ChildWrites(line) ==
    /\ stdoutOpen /\ linesWritten < MaxLines
    /\ stdoutQueue' = Append(stdoutQueue, line)
    /\ linesWritten' = linesWritten + 1
    /\ UNCHANGED <<mcpPc, nextId, pending, stdoutOpen, stderrOpen, stdoutPump, stderrPump,
                   killed, mcpTrace, mcpOut, McpRest>>

\* The child's stdout ends (the child exits, killed or by itself).
StdoutEnds ==
    /\ stdoutOpen
    /\ stdoutOpen' = FALSE
    /\ UNCHANGED <<mcpPc, nextId, pending, stdoutQueue, stderrOpen, stdoutPump, stderrPump,
                   killed, linesWritten, mcpTrace, mcpOut, McpRest>>

\* The child's stderr ends.
StderrEnds ==
    /\ stderrOpen
    /\ stderrOpen' = FALSE
    /\ UNCHANGED <<mcpPc, nextId, pending, stdoutQueue, stdoutOpen, stdoutPump, stderrPump,
                   killed, linesWritten, mcpTrace, mcpOut, McpRest>>

\* stdoutReader.read() returns a chunk holding the next n lines, and the
\* inner loop handles them in order.
StdoutRead(n) ==
    /\ stdoutPump = "reading"
    /\ n \in 1..Len(stdoutQueue)
    /\ LET st == HandleLines([pending |-> pending, trace |-> mcpTrace],
                             SubSeq(stdoutQueue, 1, n))
       IN  pending' = st.pending /\ mcpTrace' = st.trace
    /\ stdoutQueue' = SubSeq(stdoutQueue, n + 1, Len(stdoutQueue))
    /\ UNCHANGED <<mcpPc, nextId, stdoutOpen, stderrOpen, stdoutPump, stderrPump, killed,
                   linesWritten, mcpOut, McpRest>>

\* stdoutReader.read() returns done: every request still pending is
\* rejected, the map is cleared and the promise stdoutPump resolves.
StdoutDone ==
    /\ stdoutPump = "reading"
    /\ stdoutQueue = <<>> /\ ~stdoutOpen
    /\ mcpTrace' = mcpTrace \o RejectPending
    /\ pending' = {}
    /\ stdoutPump' = "ended"
    /\ UNCHANGED <<mcpPc, nextId, stdoutQueue, stdoutOpen, stderrOpen, stderrPump, killed,
                   linesWritten, mcpOut, McpRest>>

\* stderrReader.read() returns done and the promise stderrPump resolves.
StderrDone ==
    /\ stderrPump = "reading"
    /\ ~stderrOpen
    /\ stderrPump' = "ended"
    /\ UNCHANGED <<mcpPc, nextId, pending, stdoutQueue, stdoutOpen, stderrOpen, stdoutPump,
                   killed, linesWritten, mcpTrace, mcpOut, McpRest>>

McpNext ==
    \/ \E ok \in BOOLEAN : WriteStdinDone(ok)
    \/ Replied
    \/ TimedOut
    \/ PumpsSettled
    \/ \E line \in ChildLines : ChildWrites(line)
    \/ StdoutEnds
    \/ StderrEnds
    \/ \E n \in 1..MaxLines : StdoutRead(n)
    \/ StdoutDone
    \/ StderrDone

McpSpecInit ==
    McpInit /\ CoreIdle /\ FrameIdle /\ UrlsIdle /\ StoreIdle /\ PluginIdle /\ ListIdle
    /\ ConfigIdle
McpSpec == McpSpecInit /\ [][McpNext]_vars

(***************************************************************************)
(* Claims about listPalantirMcpTools, checked under McpSpec.               *)
(***************************************************************************)
\* The positions of mcpTrace holding entry e.
TraceAt(e) == {k \in 1..Len(mcpTrace) : mcpTrace[k] = e}

\* The requests written so far, as positions of mcpTrace.
RequestWrites ==
    {k \in 1..Len(mcpTrace) : mcpTrace[k].ev = "write" /\ mcpTrace[k].id # NoId}

\* Each message is written at most once and in handshake order: the
\* notification after the result of initialize was delivered, which is after
\* the initialize request; tools/list after the notification.
HandshakeOrder ==
    /\ \A m \in {"initialize", "notifications/initialized", "tools/list"} :
           Cardinality({k \in 1..Len(mcpTrace) :
                            mcpTrace[k].ev = "write" /\ mcpTrace[k].what = m}) <= 1
    /\ \A k \in 1..Len(mcpTrace) :
           /\ (mcpTrace[k].ev = "write" /\ mcpTrace[k].what = "tools/list") =>
                  \E j \in 1..(k - 1) :
                      mcpTrace[j] = Written("notifications/initialized", NoId)
           /\ mcpTrace[k] = Written("notifications/initialized", NoId) =>
                  \E i \in 1..(k - 1), j \in 1..(k - 1) :
                      /\ i < j
                      /\ mcpTrace[i].ev = "write" /\ mcpTrace[i].what = "initialize"
                      /\ mcpTrace[j] = Settled(mcpTrace[i].id, "result")

McpSettled == mcpPc \in {"resolved", "rejected"}

\* The function settles from a state where the child has been killed and
\* both pumps have ended, and resolves only after the whole handshake.
SettlesAfterCleanup ==
    (~McpSettled /\ McpSettled') =>
        /\ killed /\ stdoutPump = "ended" /\ stderrPump = "ended"
        /\ mcpPc' = "resolved" =>
               \E k \in RequestWrites :
                   /\ mcpTrace[k].what = "tools/list"
                   /\ Replies(mcpTrace[k].id) = <<Settled(mcpTrace[k].id, "result")>>

\* C36: listPalantirMcpTools writes initialize, then (after the initialize
\* result arrived) notifications/initialized, then tools/list, and never
\* tools/list before the initialize response; and however it ends (names,
\* JSON-RPC error, timeout, failed write, child exit) it settles only after
\* proc.kill() was called and both stdoutPump and stderrPump have ended.
C36_HandshakeAndCleanup ==
    /\ [](HandshakeOrder /\ (McpSettled => killed /\ stdoutPump = "ended"
                                             /\ stderrPump = "ended"))
    /\ [][SettlesAfterCleanup]_vars

\* The call has resolved after a complete handshake during which the child
\* also wrote a line that is no response.
C36_Witness ==
    /\ mcpPc = "resolved"
    /\ linesWritten >= 3
    /\ TraceAt(Written("tools/list", Num(2))) # {}

\* The ids of the requests sent so far.
RequestIds == {Num(i) : i \in 1..(nextId - 1)}

\* Distinct requests carry distinct ids, and the pending entry of each was
\* registered before its line was written.
IdsDistinctAndRegisteredFirst ==
    /\ \A j \in RequestWrites, k \in RequestWrites :
           j # k => mcpTrace[j].id # mcpTrace[k].id
    /\ \A k \in RequestWrites :
           \E j \in 1..(k - 1) : mcpTrace[j] = Registered(mcpTrace[k].id)

\* A request is settled at most once, never while its entry is pending, and
\* only requests that were sent are settled.
SettledAtMostOnce ==
    /\ \A id \in RequestIds :
           /\ Len(Replies(id)) <= 1
           /\ id \in pending => Replies(id) = <<>>
    /\ \A k \in 1..Len(mcpTrace) :
           mcpTrace[k].ev = "settle" => mcpTrace[k].id \in RequestIds
    /\ pending \subseteq RequestIds

\* The lines a step of stdoutPump took off the queue.
LinesRead == SubSeq(stdoutQueue, 1, Len(stdoutQueue) - Len(stdoutQueue'))

\* A step settles a request in one of two ways: stdoutPump read a response
\* carrying its id (an error member rejects, anything else resolves), or
\* stdout ended, and then every request still pending is rejected and none
\* stays pending.  A step that reads only lines that are unparsable or carry
\* no pending id settles nothing.
SettledByResponseOrExit ==
    /\ \A id \in RequestIds :
           (Replies(id) = <<>> /\ Replies(id)' # <<>>) =>
               \/ /\ Replies(id)'[1].what \in {"result", "error"}
                  /\ id \in pending
                  /\ \E k \in 1..Len(LinesRead) :
                         LinesRead[k] =
                             Message(id, Replies(id)'[1].what = "error")
               \/ /\ Replies(id)'[1].what = "exit"
                  /\ id \in pending
                  /\ stdoutPump = "reading" /\ stdoutPump' = "ended"
    /\ (stdoutPump = "reading" /\ stdoutPump' = "ended") =>
           /\ pending' = {}
           /\ \A id \in pending : Replies(id)' = <<Settled(id, "exit")>>
    /\ (/\ Len(stdoutQueue') < Len(stdoutQueue)
        /\ \A k \in 1..Len(LinesRead) :
               LinesRead[k].kind # "json" \/ LinesRead[k].id \notin pending) =>
           /\ pending' = pending
           /\ \A id \in RequestIds : Replies(id)' = Replies(id)

\* C37: every request carries an id of its own (nextId++) and is registered
\* in pending before it is written; each pending entry is settled at most
\* once, by the response carrying its id or by the rejection of everything
\* still pending when stdout ends; lines that are unparsable or carry an
\* unknown id settle nothing.
C37_PendingSettledOnce ==
    /\ [](IdsDistinctAndRegisteredFirst /\ SettledAtMostOnce)
    /\ [][SettledByResponseOrExit]_vars

\* Both requests were sent; the first was answered, two further lines that
\* answer nothing pending were read, and stdout ended with tools/list still
\* pending, which was rejected.
C37_Witness ==
    /\ Replies(Num(1)) = <<Settled(Num(1), "result")>>
    /\ Replies(Num(2)) = <<Settled(Num(2), "exit")>>
    /\ linesWritten >= 3
    /\ stdoutQueue = <<>>
    /\ stdoutPump = "ended"

====
